---- MODULE Spec2Model ----
(***************************************************************************)
(* The device session of cc1101-rust (src/src/lib.rs, src/src/ioctl.rs):   *)
(* one CC1101 session object, the character device it talks to, the other  *)
(* processes that share the device, and the radio that fills the driver's  *)
(* packet FIFO.  Every request the session sends to the driver is one step *)
(* of the model, so a request can fail and end the operation at that point.*)
(***************************************************************************)
EXTENDS Integers, Sequences, FiniteSets, TLC

-----------------------------------------------------------------------------
(* Bounds *)

\* RX configs differ in their frequency word: 1..MaxFreq
MaxFreq == 2
\* TX configs: 1..MaxTx
MaxTx == 1
\* capacity of the driver's packet FIFO
MaxFifo == 1
\* packets a single receive() call collects at most in the model: a full
\* FIFO and one packet that arrives while the loop runs
MaxRead == MaxFifo + 1

-----------------------------------------------------------------------------
(* Constants of the program *)

\* lib.rs:24  const VERSION: u32 = 4
VERSION == 4

\* a driver built for another protocol version
OtherVersion == VERSION + 1

DriverVersions == {VERSION, OtherVersion}

-----------------------------------------------------------------------------
(* Values *)

\* lib.rs:127: the packet length of the configs in use
PacketLengths == {64}

\* lib.rs:207-208: the contents a packet read from the driver can have
Payload == {"a", "b"}

\* config.rs:193-205: RXConfig, compared field by field (derived PartialEq)
RXConfig == [frequency : 1..MaxFreq, packet_length : PacketLengths]

\* the driver's RX config when none was pushed since load or reset:
\* what get_rx_conf fills into RXConfig::default() is then all zero
ZeroConfig == [frequency |-> 0, packet_length |-> 0]

\* Option<RXConfig>: <<>> is None, <<c>> is Some(c)
None == <<>>
Some(c) == <<c>>
OptRXConfig == {None} \cup {Some(c) : c \in RXConfig}

TXConfig == 1..MaxTx
\* the driver's TX config before any set_tx_conf
ZeroTX == 0

\* status values the ioctl wrappers and read/write distinguish
OK == "0"

-----------------------------------------------------------------------------
VARIABLES
    \* the CC1101 struct (lib.rs:110-114)
    alive,          \* a session object exists
    handle,         \* self.handle.is_some()
    rx_config,      \* self.rx_config : Option<RXConfig>
    \* the operation in progress or last returned
    pc,             \* position of the session's thread in the operation
    op,             \* name of the operation
    blocking,       \* the blocking argument given to new()
    new_config,     \* the rx_config argument of new() / set_rx_config()
    tx_config,      \* the tx_config argument of transmit()
    local,          \* the operation's local File: "none", "fresh" (opened), "clone"
    sync,           \* arguments of set_rx_config_on_device, once called
    packets,        \* receive(): the packets vector
    result,         \* what the operation returned
    log,            \* requests the operation has sent to the device, in order
    \* the driver and the device
    drvVersion,     \* protocol version the loaded driver reports
    drvRx,          \* the driver's live RX config
    drvReceiving,   \* the driver is in RX
    drvTx,          \* the driver's live TX config
    fifo,           \* the driver's received packet FIFO
    otherOpen,      \* another process holds the character device open
    \* a second non-exclusive session on the same device
    peer_config,    \* its cached RX config; None while it does not exist
    \* a CommonConfig value and the setter last called on it (config.rs:163-171)
    common,         \* the fields of the CommonConfig
    call,           \* the setter called last, its arguments and its result
    \* an RXConfig and a TXConfig around common (config.rs:196-206, 238-241)
    rx_specific,    \* the fields of the RXConfig other than common
    tx_power        \* TXConfig.tx_power, a PATABLE byte

sessVars == <<alive, handle, rx_config>>
opVars == <<pc, op, blocking, new_config, tx_config, local, sync, packets, result, log>>
drvVars == <<drvVersion, drvRx, drvReceiving, drvTx, fifo, otherOpen>>
auxVars == <<peer_config, common, call, rx_specific, tx_power>>
vars == <<alive, handle, rx_config, pc, op, blocking, new_config, tx_config, local,
          sync, packets, result, log, drvVersion, drvRx, drvReceiving, drvTx, fifo,
          otherOpen, peer_config, common, call, rx_specific, tx_power>>

\* config.rs:173-185: CommonConfig::default()
DefaultCommonConfig ==
    [frequency |-> 1093745, modulation |-> "OOK", baud_rate_mantissa |-> 67,
     baud_rate_exponent |-> 5, deviation_mantissa |-> 7, deviation_exponent |-> 4,
     sync_word |-> <<0, 0>>]

\* config.rs:208-222: the fields RXConfig::default() adds to the common ones
DefaultRXSpecific ==
    [bandwidth_mantissa |-> 0, bandwidth_exponent |-> 2, max_lna_gain |-> 0,
     max_dvga_gain |-> 0, magn_target |-> 33, carrier_sense_mode |-> "Relative",
     carrier_sense |-> 6, packet_length |-> 1024]

\* config.rs:237: TXConfig derives Default, so tx_power starts as 0
DefaultTXPower == 0

\* no setter has been called yet
NoCall == [fn |-> "none", args |-> <<>>, res |-> "none", val |-> <<>>]

NoSync == [called |-> FALSE, old |-> None, new |-> ZeroConfig, blocking |-> FALSE]

\* the session's process holds an open file on the device
SessionHolds == handle \/ local # "none"

-----------------------------------------------------------------------------
(* Pure helpers *)

\* a log entry
Entry(r, s, d) == [req |-> r, status |-> s, data |-> d]

InitSession ==
    /\ alive = FALSE
    /\ handle = FALSE
    /\ rx_config = None
    /\ pc = "idle"
    /\ op = "none"
    /\ blocking = FALSE
    /\ new_config = None
    /\ tx_config = ZeroTX
    /\ local = "none"
    /\ sync = NoSync
    /\ packets = <<>>
    /\ result = "none"
    /\ log = <<>>
    /\ drvVersion \in DriverVersions
    /\ drvRx = ZeroConfig
    /\ drvReceiving = FALSE
    /\ drvTx = ZeroTX
    /\ fifo = <<>>
    /\ otherOpen = FALSE
    /\ peer_config = None

Init ==
    /\ InitSession
    /\ common = DefaultCommonConfig
    /\ call = NoCall
    /\ rx_specific = DefaultRXSpecific
    /\ tx_power = DefaultTXPower

-----------------------------------------------------------------------------
(* ErrorMapper: the match arms that turn a status into a DeviceError *)

\* lib.rs:269-272: open() failed with errno e
OpenErr(e) == IF e = "EBUSY" THEN "Busy" ELSE "Unknown"

\* ioctl.rs:41-45, 51-55, 67-71, 79-83, 91-95, 128-132, 140-144
IoctlErr(s) == IF s = "EIO" THEN "InvalidIOCTL" ELSE "Unknown"

\* ioctl.rs:101-108
SetRxErr(s) ==
    CASE s = "EIO" -> "InvalidIOCTL"
      [] s = "EFAULT" -> "Copy"
      [] s = "EINVAL" -> "InvalidConfig"
      [] s = "ENOMEM" -> "OutOfMemory"
      [] OTHER -> "Unknown"

\* ioctl.rs:114-120
SetTxErr(s) ==
    CASE s = "EIO" -> "InvalidIOCTL"
      [] s = "EFAULT" -> "Copy"
      [] s = "EINVAL" -> "InvalidConfig"
      [] OTHER -> "Unknown"

\* lib.rs:212-225: read() failed with an errno other than ENOMSG
ReadErr(e) ==
    CASE e = "EMSGSIZE" -> "PacketSize"
      [] e = "EBUSY" -> "Busy"
      [] e = "EINVAL" -> "InvalidConfig"
      [] e = "EFAULT" -> "Copy"
      [] OTHER -> "Unknown"

\* lib.rs:256-261: write() failed
WriteErr(e) ==
    CASE e = "EINVAL" -> "PacketSize"
      [] e = "ENOMEM" -> "OutOfMemory"
      [] e = "EFAULT" -> "Copy"
      [] OTHER -> "Unknown"

\* the failures each request can report
OpenFailures == {"EBUSY", "EOTHER"}
IoctlFailures == {"EIO", "EOTHER"}
SetRxFailures == {"EIO", "EFAULT", "EINVAL", "ENOMEM", "EOTHER"}
SetTxFailures == {"EIO", "EFAULT", "EINVAL", "EOTHER"}
ReadFailures == {"EMSGSIZE", "EBUSY", "EINVAL", "EFAULT", "EOTHER"}
WriteFailures == {"EINVAL", "ENOMEM", "EFAULT", "EOTHER"}

\* the get_* operations that send one ioctl and return its answer
GetOps == {"get_rssi", "get_max_packet_size", "get_device_tx_config",
           "get_device_rx_config", "get_device_registers"}

-----------------------------------------------------------------------------
(* Control flow of the operations *)

\* lib.rs:331-334
ConfigsMatch(old_config, new) ==
    IF old_config # None THEN old_config[1] = new ELSE FALSE

\* where an operation continues once set_rx_config_on_device returned Ok:
\* new() builds the struct, receive() reads, set_rx_config() stores the config
AfterSync(o) ==
    CASE o = "new" -> "construct"
      [] o = "receive" -> "read"
      [] OTHER -> "store"

\* SyncNext without the exclusive shortcut: an equal config is read back
\* from the driver also when the session is blocking
SyncNext_AlwaysReadBack(a, o) ==
    IF ConfigsMatch(a.old, a.new) THEN "get_rx" ELSE "set_rx"

\* SyncNext that saves the push of a new config the driver already has
SyncNext_SkipWhenLive(a, o) ==
    IF ConfigsMatch(a.old, a.new)
    THEN IF ~a.blocking THEN "get_rx" ELSE AfterSync(o)
    ELSE IF drvRx = a.new THEN AfterSync(o) ELSE "set_rx"

\* lib.rs:336-349: the branch set_rx_config_on_device takes
SyncNext(a, o) ==
    IF ConfigsMatch(a.old, a.new)
    THEN IF ~a.blocking THEN "get_rx" ELSE AfterSync(o)
    ELSE "set_rx"

\* ReadBackNext that pushes when the read-back equals the new config
ReadBackNext_Inverted(current_device_config, new, o) ==
    IF current_device_config = new THEN "set_rx" ELSE AfterSync(o)

\* ReadBackNext that trusts the cached config and never pushes
ReadBackNext_NeverPush(current_device_config, new, o) == AfterSync(o)

\* ReadBackNext that pushes whatever the read-back returned
ReadBackNext_AlwaysPush(current_device_config, new, o) == "set_rx"

\* lib.rs:343: after the read-back returned current_device_config
ReadBackNext(current_device_config, new, o) ==
    IF current_device_config # new THEN "set_rx" ELSE AfterSync(o)

\* the arguments set_rx_config_on_device is called with:
\* lib.rs:139 (new), lib.rs:198-203 (receive), lib.rs:314-319 (set_rx_config)
SyncArgs ==
    CASE op = "new" ->
           [called |-> TRUE, old |-> None, new |-> new_config[1], blocking |-> blocking]
      [] op = "receive" ->
           [called |-> TRUE, old |-> rx_config, new |-> rx_config[1], blocking |-> handle]
      [] OTHER ->
           [called |-> TRUE, old |-> rx_config, new |-> new_config[1], blocking |-> handle]

\* where an operation continues once it has its handle
BodyPc(o) ==
    CASE o = "new" -> (IF new_config # None THEN "sync" ELSE "construct")
      [] o \in {"receive", "set_rx_config"} -> "sync"
      [] o = "transmit" -> "set_tx"
      [] o = "reset" -> "reset"
      [] OTHER -> "get"

\* Return that leaves the operation's File open
Return_KeepLocal(res) ==
    /\ pc' = "idle"
    /\ result' = res
    /\ local' = local

\* the operation returns res: its local File goes out of scope
Return(res) ==
    /\ pc' = "idle"
    /\ result' = res
    /\ local' = "none"

\* an operation starts with arguments c and t (None, ZeroTX when it takes
\* none): nothing sent yet, nothing returned yet
Start(o, c, t) ==
    /\ op' = o
    /\ new_config' = c
    /\ tx_config' = t
    /\ log' = <<>>
    /\ sync' = NoSync
    /\ packets' = <<>>

-----------------------------------------------------------------------------
(* The operations of the session, lib.rs *)

\* lib.rs:131-136: new(device, rx_config, blocking) is called
CallNew(c, b) ==
    /\ pc = "idle"
    /\ ~alive
    /\ Start("new", c, ZeroTX)
    /\ blocking' = b
    /\ result' = "pending"
    /\ pc' = "open"
    /\ UNCHANGED <<sessVars, drvVars, local>>
    /\ UNCHANGED auxVars

\* CallReceive that fetches the handle before it looks at the cached config
CallReceive_HandleFirst ==
    /\ pc = "idle"
    /\ alive
    /\ Start("receive", None, ZeroTX)
    /\ pc' = "get_handle"
    /\ result' = "pending"
    /\ local' = local
    /\ UNCHANGED <<sessVars, drvVars, blocking>>
    /\ UNCHANGED auxVars

\* lib.rs:195-197, 230-232: receive() is called
CallReceive ==
    /\ pc = "idle"
    /\ alive
    /\ Start("receive", None, ZeroTX)
    /\ IF rx_config # None
       THEN /\ pc' = "get_handle"
            /\ result' = "pending"
            /\ local' = local
       ELSE Return("NoRXConfig")
    /\ UNCHANGED <<sessVars, drvVars, blocking>>
    /\ UNCHANGED auxVars

\* lib.rs:249-250: transmit(tx_config, data) is called
CallTransmit(t) ==
    /\ pc = "idle"
    /\ alive
    /\ Start("transmit", None, t)
    /\ result' = "pending"
    /\ pc' = "get_handle"
    /\ UNCHANGED <<sessVars, drvVars, blocking, local>>
    /\ UNCHANGED auxVars

\* lib.rs:301-302: reset() is called
CallReset ==
    /\ pc = "idle"
    /\ alive
    /\ Start("reset", None, ZeroTX)
    /\ result' = "pending"
    /\ pc' = "get_handle"
    /\ UNCHANGED <<sessVars, drvVars, blocking, local>>
    /\ UNCHANGED auxVars

\* CallSetRxConfig that stores the new config before it is applied
CallSetRxConfig_StoresFirst(c) ==
    /\ pc = "idle"
    /\ alive
    /\ Start("set_rx_config", Some(c), ZeroTX)
    /\ rx_config' = Some(c)
    /\ result' = "pending"
    /\ pc' = "get_handle"
    /\ UNCHANGED <<alive, handle, drvVars, blocking, local>>
    /\ UNCHANGED auxVars

\* lib.rs:313-315: set_rx_config(rx_config) is called
CallSetRxConfig(c) ==
    /\ pc = "idle"
    /\ alive
    /\ Start("set_rx_config", Some(c), ZeroTX)
    /\ result' = "pending"
    /\ pc' = "get_handle"
    /\ UNCHANGED <<sessVars, drvVars, blocking, local>>
    /\ UNCHANGED auxVars

\* lib.rs:157-166, 359-376: one of the get_* operations is called
CallGet(g) ==
    /\ pc = "idle"
    /\ alive
    /\ Start(g, None, ZeroTX)
    /\ result' = "pending"
    /\ pc' = "get_handle"
    /\ UNCHANGED <<sessVars, drvVars, blocking, local>>
    /\ UNCHANGED auxVars

\* lib.rs:287-296: get_handle clones the held handle or opens the device
GetHandle ==
    /\ pc = "get_handle"
    /\ IF handle
       THEN \/ /\ local' = "clone"
               /\ pc' = BodyPc(op)
               /\ result' = result
            \/ Return("FileHandleClone")
       ELSE /\ pc' = "open"
            /\ UNCHANGED <<local, result>>
    /\ UNCHANGED <<sessVars, drvVars, op, blocking, new_config, tx_config, sync,
                   packets, log>>
    /\ UNCHANGED auxVars

\* OpenReq that puts the opened File into the session's handle at once when
\* blocking was asked for
OpenReq_KeepsHandle ==
    /\ pc = "open"
    /\ \/ /\ ~otherOpen
          /\ ~SessionHolds
          /\ log' = Append(log, Entry("open", OK, <<>>))
          /\ local' = "fresh"
          /\ handle' = blocking
          /\ pc' = "version"
          /\ result' = result
       \/ \E e \in OpenFailures :
            /\ log' = Append(log, Entry("open", e, <<>>))
            /\ Return(OpenErr(e))
            /\ handle' = handle
    /\ UNCHANGED <<alive, rx_config, drvVars, op, blocking, new_config, tx_config, sync,
                   packets>>
    /\ UNCHANGED auxVars

\* lib.rs:267-273: open() of the character device; the driver lets one
\* process at a time hold it (lib.rs:104), so the call waits while it is held
OpenReq ==
    /\ pc = "open"
    /\ \/ /\ ~otherOpen
          /\ ~SessionHolds
          /\ log' = Append(log, Entry("open", OK, <<>>))
          /\ local' = "fresh"
          /\ pc' = "version"
          /\ result' = result
       \/ \E e \in OpenFailures :
            /\ log' = Append(log, Entry("open", e, <<>>))
            /\ Return(OpenErr(e))
    /\ UNCHANGED <<sessVars, drvVars, op, blocking, new_config, tx_config, sync, packets>>
    /\ UNCHANGED auxVars

\* VersionNext that accepts whatever version the driver reports
VersionNext_NoCompare(s, version, o) ==
    IF s # OK THEN IoctlErr(s) ELSE "continue"

\* what open() does with the answer of get_version: lib.rs:275-281
VersionNext(s, version, o) ==
    IF s # OK THEN IoctlErr(s)
    ELSE IF version # VERSION THEN "VersionMismatch"
    ELSE "continue"

\* lib.rs:275-281, ioctl.rs:36-46: the version request on the fresh handle
VersionReq ==
    /\ pc = "version"
    /\ \E s \in {OK} \cup IoctlFailures :
         /\ log' = Append(log, Entry("get_version", s, <<drvVersion>>))
         /\ IF VersionNext(s, drvVersion, op) = "continue"
            THEN /\ pc' = BodyPc(op)
                 /\ UNCHANGED <<local, result>>
            ELSE Return(VersionNext(s, drvVersion, op))
    /\ UNCHANGED <<sessVars, drvVars, op, blocking, new_config, tx_config, sync, packets>>
    /\ UNCHANGED auxVars

\* lib.rs:324-336, 347: set_rx_config_on_device is entered and picks its branch
SyncStep ==
    /\ pc = "sync"
    /\ sync' = SyncArgs
    /\ pc' = SyncNext(SyncArgs, op)
    /\ UNCHANGED <<sessVars, drvVars, op, blocking, new_config, tx_config, local,
                   packets, result, log>>
    /\ UNCHANGED auxVars

\* lib.rs:340-345, ioctl.rs:86-96: read back the driver's live RX config
GetRxReq ==
    /\ pc = "get_rx"
    /\ \E s \in {OK} \cup IoctlFailures :
         /\ log' = Append(log, Entry("get_rx_conf", s, <<drvRx>>))
         /\ IF s = OK
            THEN /\ pc' = ReadBackNext(drvRx, sync.new, op)
                 /\ UNCHANGED <<local, result>>
            ELSE Return(IoctlErr(s))
    /\ UNCHANGED <<sessVars, drvVars, op, blocking, new_config, tx_config, sync, packets>>
    /\ UNCHANGED auxVars

\* lib.rs:108: the packets the driver holds for the peer session, received
\* under the peer's config, which a new receive configuration discards
PeerPacketsHeld ==
    IF peer_config # None /\ drvRx = peer_config[1] THEN Len(fifo) ELSE 0

\* lib.rs:344, 348, ioctl.rs:98-109: push new_config to the driver, which
\* starts RX with it and resets its packet buffer (lib.rs:74, 108).  The log
\* entry notes the config pushed, the live config before the push and the
\* number of packets held for the peer session before the push
SetRxReq ==
    /\ pc = "set_rx"
    /\ \E s \in {OK} \cup SetRxFailures :
         /\ log' = Append(log, Entry("set_rx_conf", s, <<sync.new, drvRx, PeerPacketsHeld>>))
         /\ IF s = OK
            THEN /\ drvRx' = sync.new
                 /\ drvReceiving' = TRUE
                 /\ fifo' = <<>>
                 /\ pc' = AfterSync(op)
                 /\ UNCHANGED <<local, result>>
            ELSE /\ Return(SetRxErr(s))
                 /\ UNCHANGED <<drvRx, drvReceiving, fifo>>
    /\ UNCHANGED <<sessVars, drvVersion, drvTx, otherOpen, op, blocking, new_config,
                   tx_config, sync, packets>>
    /\ UNCHANGED auxVars

\* Construct that never keeps the handle
Construct_NeverKeeps ==
    /\ pc = "construct"
    /\ alive' = TRUE
    /\ handle' = FALSE
    /\ rx_config' = new_config
    /\ Return("Ok")
    /\ UNCHANGED <<drvVars, op, blocking, new_config, tx_config, sync, packets, log>>
    /\ UNCHANGED auxVars

\* lib.rs:142-153: new() builds the struct; the handle is kept only when blocking
Construct ==
    /\ pc = "construct"
    /\ alive' = TRUE
    /\ handle' = blocking
    /\ rx_config' = new_config
    /\ Return("Ok")
    /\ UNCHANGED <<drvVars, op, blocking, new_config, tx_config, sync, packets, log>>
    /\ UNCHANGED auxVars

\* lib.rs:320-321: set_rx_config stores the config it has applied
Store ==
    /\ pc = "store"
    /\ rx_config' = new_config
    /\ Return("Ok")
    /\ UNCHANGED <<alive, handle, drvVars, op, blocking, new_config, tx_config, sync,
                   packets, log>>
    /\ UNCHANGED auxVars

\* PushPacket that puts the new packet in front
PushPacket_Front(ps, data, cfg) == <<[data |-> data, len |-> cfg.packet_length]>> \o ps

\* lib.rs:207-211: a successful read fills one buffer of packet_length bytes,
\* which is pushed at the end of the packets vector
PushPacket(ps, data, cfg) == Append(ps, [data |-> data, len |-> cfg.packet_length])

\* ReadReq whose loop ends after the first packet
ReadReq_OnePacket ==
    /\ pc = "read"
    /\ \/ /\ fifo # <<>>
          /\ log' = Append(log, Entry("read", OK, <<Head(fifo), drvRx, Len(fifo)>>))
          /\ packets' = PushPacket(packets, Head(fifo), rx_config[1])
          /\ fifo' = Tail(fifo)
          /\ Return("Ok")
       \/ /\ fifo = <<>>
          /\ log' = Append(log, Entry("read", "ENOMSG", <<>>))
          /\ Return("Ok")
          /\ UNCHANGED <<packets, fifo>>
       \/ \E e \in ReadFailures :
            /\ log' = Append(log, Entry("read", e, <<>>))
            /\ Return(ReadErr(e))
            /\ packets' = <<>>
            /\ fifo' = fifo
    /\ UNCHANGED <<sessVars, drvVersion, drvRx, drvReceiving, drvTx, otherOpen, op,
                   blocking, new_config, tx_config, sync>>
    /\ UNCHANGED auxVars

\* ReadReq that hands the packets read so far to the caller when a read fails
ReadReq_KeepsPackets ==
    /\ pc = "read"
    /\ \/ /\ fifo # <<>>
          /\ log' = Append(log, Entry("read", OK, <<Head(fifo), drvRx, Len(fifo)>>))
          /\ packets' = PushPacket(packets, Head(fifo), rx_config[1])
          /\ fifo' = Tail(fifo)
          /\ UNCHANGED <<pc, result, local>>
       \/ /\ fifo = <<>>
          /\ log' = Append(log, Entry("read", "ENOMSG", <<>>))
          /\ Return("Ok")
          /\ UNCHANGED <<packets, fifo>>
       \/ \E e \in ReadFailures :
            /\ log' = Append(log, Entry("read", e, <<>>))
            /\ Return(ReadErr(e))
            /\ packets' = packets
            /\ fifo' = fifo
    /\ UNCHANGED <<sessVars, drvVersion, drvRx, drvReceiving, drvTx, otherOpen, op,
                   blocking, new_config, tx_config, sync>>
    /\ UNCHANGED auxVars

\* lib.rs:206-229: one read() of the receive loop.  The driver hands out the
\* oldest buffered packet, or reports ENOMSG when its buffer is empty.  The
\* log entry of a successful read also notes the driver's live RX config and
\* the number of packets its buffer held when the read was answered
ReadReq ==
    /\ pc = "read"
    /\ \/ /\ fifo # <<>>
          /\ log' = Append(log, Entry("read", OK, <<Head(fifo), drvRx, Len(fifo)>>))
          /\ packets' = PushPacket(packets, Head(fifo), rx_config[1])
          /\ fifo' = Tail(fifo)
          /\ UNCHANGED <<pc, result, local>>
       \/ /\ fifo = <<>>
          /\ log' = Append(log, Entry("read", "ENOMSG", <<>>))
          /\ Return("Ok")
          /\ UNCHANGED <<packets, fifo>>
       \/ \E e \in ReadFailures :
            /\ log' = Append(log, Entry("read", e, <<>>))
            /\ Return(ReadErr(e))
            /\ packets' = <<>>
            /\ fifo' = fifo
    /\ UNCHANGED <<sessVars, drvVersion, drvRx, drvReceiving, drvTx, otherOpen, op,
                   blocking, new_config, tx_config, sync>>
    /\ UNCHANGED auxVars

\* SetTxReq that skips the push when the driver already has tx_config
SetTxReq_Cached ==
    /\ pc = "set_tx"
    /\ IF drvTx = tx_config
       THEN /\ pc' = "write"
            /\ UNCHANGED <<log, drvTx, local, result>>
       ELSE \E s \in {OK} \cup SetTxFailures :
              /\ log' = Append(log, Entry("set_tx_conf", s, <<tx_config, drvTx>>))
              /\ IF s = OK
                 THEN /\ drvTx' = tx_config
                      /\ pc' = "write"
                      /\ UNCHANGED <<local, result>>
                 ELSE /\ Return(SetTxErr(s))
                      /\ drvTx' = drvTx
    /\ UNCHANGED <<sessVars, drvVersion, drvRx, drvReceiving, fifo, otherOpen, op,
                   blocking, new_config, tx_config, sync, packets>>
    /\ UNCHANGED auxVars

\* SetTxReq that goes on to the write when the push failed
SetTxReq_Continues ==
    /\ pc = "set_tx"
    /\ \E s \in {OK} \cup SetTxFailures :
         /\ log' = Append(log, Entry("set_tx_conf", s, <<tx_config, drvTx>>))
         /\ drvTx' = (IF s = OK THEN tx_config ELSE drvTx)
         /\ pc' = "write"
         /\ UNCHANGED <<local, result>>
    /\ UNCHANGED <<sessVars, drvVersion, drvRx, drvReceiving, fifo, otherOpen, op,
                   blocking, new_config, tx_config, sync, packets>>
    /\ UNCHANGED auxVars

\* lib.rs:252, 305-307, ioctl.rs:111-121: push tx_config to the driver
SetTxReq ==
    /\ pc = "set_tx"
    /\ \E s \in {OK} \cup SetTxFailures :
         /\ log' = Append(log, Entry("set_tx_conf", s, <<tx_config, drvTx>>))
         /\ IF s = OK
            THEN /\ drvTx' = tx_config
                 /\ pc' = "write"
                 /\ UNCHANGED <<local, result>>
            ELSE /\ Return(SetTxErr(s))
                 /\ drvTx' = drvTx
    /\ UNCHANGED <<sessVars, drvVersion, drvRx, drvReceiving, fifo, otherOpen, op,
                   blocking, new_config, tx_config, sync, packets>>
    /\ UNCHANGED auxVars

\* lib.rs:254-262: write() of the payload; the driver pauses RX, transmits
\* and restores its receive config (lib.rs:88)
WriteReq ==
    /\ pc = "write"
    /\ \E s \in {OK} \cup WriteFailures :
         /\ log' = Append(log, Entry("write", s, <<>>))
         /\ Return(IF s = OK THEN "Ok" ELSE WriteErr(s))
    /\ UNCHANGED <<sessVars, drvVars, op, blocking, new_config, tx_config, sync, packets>>
    /\ UNCHANGED auxVars

\* lib.rs:301-303, ioctl.rs:48-56: the reset request; the driver clears its
\* packet buffer and stops receiving (lib.rs:75, 300)
ResetReq ==
    /\ pc = "reset"
    /\ \E s \in {OK} \cup IoctlFailures :
         /\ log' = Append(log, Entry("reset", s, <<>>))
         /\ IF s = OK
            THEN /\ drvRx' = ZeroConfig
                 /\ drvReceiving' = FALSE
                 /\ fifo' = <<>>
                 /\ Return("Ok")
            ELSE /\ Return(IoctlErr(s))
                 /\ UNCHANGED <<drvRx, drvReceiving, fifo>>
    /\ UNCHANGED <<sessVars, drvVersion, drvTx, otherOpen, op, blocking, new_config,
                   tx_config, sync, packets>>
    /\ UNCHANGED auxVars

\* lib.rs:157-166, 359-376, ioctl.rs:58-96, 123-145: the ioctl of a get_* operation
GetReq ==
    /\ pc = "get"
    /\ \E s \in {OK} \cup IoctlFailures :
         /\ log' = Append(log, Entry(op, s, <<>>))
         /\ Return(IF s = OK THEN "Ok" ELSE IoctlErr(s))
    /\ UNCHANGED <<sessVars, drvVars, op, blocking, new_config, tx_config, sync, packets>>
    /\ UNCHANGED auxVars

\* the CC1101 struct goes out of scope: its File, if any, is closed
Drop ==
    /\ pc = "idle"
    /\ alive
    /\ alive' = FALSE
    /\ handle' = FALSE
    /\ rx_config' = None
    /\ Start("drop", None, ZeroTX)
    /\ blocking' = FALSE
    /\ result' = "none"
    /\ UNCHANGED <<drvVars, pc, local>>
    /\ UNCHANGED auxVars

-----------------------------------------------------------------------------
(* The environment: other processes sharing the device, the radio, the driver *)

\* lib.rs:104: another process opens the device once nobody holds it
OtherOpen ==
    /\ ~otherOpen
    /\ ~SessionHolds
    /\ otherOpen' = TRUE
    /\ UNCHANGED <<sessVars, opVars, drvVersion, drvRx, drvReceiving, drvTx, fifo>>
    /\ UNCHANGED auxVars

\* the other process closes the device
OtherClose ==
    /\ otherOpen
    /\ otherOpen' = FALSE
    /\ UNCHANGED <<sessVars, opVars, drvVersion, drvRx, drvReceiving, drvTx, fifo>>
    /\ UNCHANGED auxVars

\* lib.rs:108: the other process sets a receive configuration
OtherSetRx(c) ==
    /\ otherOpen
    /\ drvRx' = c
    /\ drvReceiving' = TRUE
    /\ fifo' = <<>>
    /\ UNCHANGED <<sessVars, opVars, drvVersion, drvTx, otherOpen>>
    /\ UNCHANGED auxVars

\* lib.rs:97-100: the other process transmits with its own TX config
OtherTransmit(t) ==
    /\ otherOpen
    /\ drvTx # t
    /\ drvTx' = t
    /\ UNCHANGED <<sessVars, opVars, drvVersion, drvRx, drvReceiving, fifo, otherOpen>>
    /\ UNCHANGED auxVars

\* lib.rs:75: the other process resets the driver
OtherReset ==
    /\ otherOpen
    /\ drvReceiving
    /\ drvRx' = ZeroConfig
    /\ drvReceiving' = FALSE
    /\ fifo' = <<>>
    /\ UNCHANGED <<sessVars, opVars, drvVersion, drvTx, otherOpen>>
    /\ UNCHANGED auxVars

\* the other process reads a packet out of the driver's buffer
OtherRead ==
    /\ otherOpen
    /\ fifo # <<>>
    /\ fifo' = Tail(fifo)
    /\ UNCHANGED <<sessVars, opVars, drvVersion, drvRx, drvReceiving, drvTx, otherOpen>>
    /\ UNCHANGED auxVars

\* lib.rs:72-75: while the driver is in RX the radio receives a packet, which
\* the driver appends to its buffer
PacketArrives(p) ==
    /\ drvReceiving
    /\ Len(fifo) < MaxFifo
    /\ pc = "read" => Len(packets) + Len(fifo) < MaxRead
    /\ fifo' = Append(fifo, p)
    /\ UNCHANGED <<sessVars, opVars, drvVersion, drvRx, drvReceiving, drvTx, otherOpen>>
    /\ UNCHANGED auxVars

\* the driver module is replaced by a build with another protocol version
\* while nobody holds the device; the new driver starts idle
DriverReload(v) ==
    /\ ~otherOpen
    /\ ~SessionHolds
    /\ v # drvVersion
    /\ drvVersion' = v
    /\ drvRx' = ZeroConfig
    /\ drvReceiving' = FALSE
    /\ drvTx' = ZeroTX
    /\ fifo' = <<>>
    /\ UNCHANGED <<sessVars, opVars, otherOpen>>
    /\ UNCHANGED auxVars

-----------------------------------------------------------------------------
(* A second non-exclusive session on the same device.  It runs the code of
   lib.rs like the first one; as it holds the device from its open() to its
   return, each of its operations is one step for everybody else.  Only its
   successful operations are modelled. *)

\* lib.rs:266-282: the peer's open() succeeds and the version is accepted
PeerOpens == ~otherOpen /\ ~SessionHolds /\ drvVersion = VERSION

\* lib.rs:324-351: set_rx_config_on_device of a non-exclusive session pushes
PeerPushes(old_config, new) ==
    LET a == [called |-> TRUE, old |-> old_config, new |-> new, blocking |-> FALSE]
    IN  \/ SyncNext(a, "receive") = "set_rx"
        \/ /\ SyncNext(a, "receive") = "get_rx"
           /\ ReadBackNext(drvRx, new, "receive") = "set_rx"

\* lib.rs:98-109, 108: what the peer's set_rx_config_on_device does to the driver
PeerSync(old_config, new) ==
    IF PeerPushes(old_config, new)
    THEN /\ drvRx' = new
         /\ drvReceiving' = TRUE
    ELSE UNCHANGED <<drvRx, drvReceiving>>

\* lib.rs:131-154: new(device, Some(c), false) of the peer
PeerNew(c) ==
    /\ peer_config = None
    /\ PeerOpens
    /\ PeerSync(None, c)
    /\ fifo' = <<>>
    /\ peer_config' = Some(c)
    /\ UNCHANGED <<sessVars, opVars, drvVersion, drvTx, otherOpen, common, call, rx_specific, tx_power>>

\* lib.rs:195-233: receive() of the peer; its reads empty the driver's buffer
PeerReceive ==
    /\ peer_config # None
    /\ PeerOpens
    /\ PeerSync(peer_config, peer_config[1])
    /\ fifo' = <<>>
    /\ UNCHANGED <<sessVars, opVars, drvVersion, drvTx, otherOpen, auxVars>>

\* lib.rs:313-322: set_rx_config(c) of the peer
PeerSetRxConfig(c) ==
    /\ peer_config # None
    /\ PeerOpens
    /\ PeerSync(peer_config, c)
    /\ fifo' = (IF PeerPushes(peer_config, c) THEN <<>> ELSE fifo)
    /\ peer_config' = Some(c)
    /\ UNCHANGED <<sessVars, opVars, drvVersion, drvTx, otherOpen, common, call, rx_specific, tx_power>>

\* the peer's struct goes out of scope
PeerDrop ==
    /\ peer_config # None
    /\ peer_config' = None
    /\ UNCHANGED <<sessVars, opVars, drvVars, common, call, rx_specific, tx_power>>

\* two non-exclusive sessions that receive and change their RX config; no
\* third process, no reset, no driver reload
NextShared ==
    \/ \E c \in OptRXConfig : CallNew(c, FALSE)
    \/ CallReceive
    \/ \E c \in RXConfig : CallSetRxConfig(c)
    \/ GetHandle
    \/ OpenReq
    \/ VersionReq
    \/ SyncStep
    \/ GetRxReq
    \/ SetRxReq
    \/ Construct
    \/ Store
    \/ ReadReq
    \/ Drop
    \/ \E c \in RXConfig : PeerNew(c)
    \/ PeerReceive
    \/ \E c \in RXConfig : PeerSetRxConfig(c)
    \/ PeerDrop
    \/ \E p \in Payload : PacketArrives(p)

SpecShared == Init /\ [][NextShared]_vars

-----------------------------------------------------------------------------
Next ==
    \/ \E c \in OptRXConfig, b \in BOOLEAN : CallNew(c, b)
    \/ CallReceive
    \/ \E t \in TXConfig : CallTransmit(t)
    \/ CallReset
    \/ \E c \in RXConfig : CallSetRxConfig(c)
    \/ \E g \in GetOps : CallGet(g)
    \/ GetHandle
    \/ OpenReq
    \/ VersionReq
    \/ SyncStep
    \/ GetRxReq
    \/ SetRxReq
    \/ Construct
    \/ Store
    \/ ReadReq
    \/ SetTxReq
    \/ WriteReq
    \/ ResetReq
    \/ GetReq
    \/ Drop
    \/ OtherOpen
    \/ OtherClose
    \/ \E c \in RXConfig : OtherSetRx(c)
    \/ \E t \in TXConfig : OtherTransmit(t)
    \/ OtherReset
    \/ OtherRead
    \/ \E p \in Payload : PacketArrives(p)
    \/ \E v \in DriverVersions : DriverReload(v)

Spec == Init /\ [][Next]_vars

TypeOK ==
    /\ alive \in BOOLEAN
    /\ handle \in BOOLEAN
    /\ rx_config \in OptRXConfig
    /\ local \in {"none", "fresh", "clone"}
    /\ drvRx \in RXConfig \cup {ZeroConfig}
    /\ Len(fifo) <= MaxFifo
    /\ Len(packets) <= MaxRead

-----------------------------------------------------------------------------
(* Reading the log *)

\* positions of the requests of kind r in the operation's log
Positions(r) == {i \in 1..Len(log) : log[i].req = r}

\* the operation has returned
Returned == pc = "idle" /\ result \notin {"none", "pending"}

\* the requests of the operation itself, without those that acquire the handle
Body == SelectSeq(log, LAMBDA e : e.req \notin {"open", "get_version"})

\* the log starts with a successful open and an accepted version
FreshHandleAccepted ==
    /\ Len(log) >= 2
    /\ log[1] = Entry("open", OK, <<>>)
    /\ log[2] = Entry("get_version", OK, <<VERSION>>)

-----------------------------------------------------------------------------
(* RX synchronisation *)

\* C1: when set_rx_config_on_device is called by a session that holds the
\* device (blocking) with a new config equal to the cached one, the operation
\* sends no set_rx_conf and no get_rx_conf; nothing but the reads of receive()
\* ever reaches the driver in such an operation.
C1_ExclusiveEqualSendsNothing ==
    (sync.called /\ sync.blocking /\ ConfigsMatch(sync.old, sync.new)) =>
        /\ Positions("set_rx_conf") = {}
        /\ Positions("get_rx_conf") = {}
        /\ \A i \in 1..Len(log) : log[i].req = "read"

\* set_rx_config(C) returned Ok on a blocking session whose cached config was C
C1_Witness ==
    /\ Returned /\ result = "Ok" /\ op = "set_rx_config"
    /\ handle /\ sync.called /\ sync.blocking
    /\ sync.old = Some(sync.new)

\* C2: when the cached config is absent or differs from the new one, the
\* synchronisation sends exactly one set_rx_conf, carrying the new config, and
\* no get_rx_conf, whether the session is blocking or not and whatever the
\* driver's live config is.
C2_AbsentOrDifferentPushesOnce ==
    (sync.called /\ ~ConfigsMatch(sync.old, sync.new)) =>
        /\ Positions("get_rx_conf") = {}
        /\ IF pc = "set_rx"
           THEN Positions("set_rx_conf") = {}
           ELSE /\ Cardinality(Positions("set_rx_conf")) = 1
                /\ \A i \in Positions("set_rx_conf") : log[i].data[1] = sync.new

\* a blocking session with no cached config pushed a config that was
\* already the driver's live config
C2_Witness ==
    /\ Returned /\ result = "Ok" /\ op = "set_rx_config"
    /\ sync.called /\ sync.blocking /\ sync.old = None
    /\ \E i \in Positions("set_rx_conf") :
         log[i].status = OK /\ log[i].data[2] = sync.new

\* C3: when the cached config equals the new one and the session is not
\* blocking, the synchronisation first sends exactly one get_rx_conf; it then
\* sends exactly one set_rx_conf when the config read back differs from the
\* new config, and none when it is equal (or when the read-back failed, which
\* ends the operation).  No operation ever sends more than one set_rx_conf.
C3_NonExclusiveEqualReadsBack ==
    /\ Cardinality(Positions("set_rx_conf")) <= 1
    /\ (sync.called /\ ConfigsMatch(sync.old, sync.new) /\ ~sync.blocking) =>
         IF pc = "get_rx"
         THEN Positions("get_rx_conf") = {} /\ Positions("set_rx_conf") = {}
         ELSE /\ Cardinality(Positions("get_rx_conf")) = 1
              /\ \A g \in Positions("get_rx_conf") :
                   IF log[g].status = OK /\ log[g].data[1] # sync.new
                   THEN IF pc = "set_rx"
                        THEN g = Len(log)
                        ELSE Positions("set_rx_conf") = {g + 1}
                   ELSE Positions("set_rx_conf") = {}

\* receive() of a non-blocking session found the driver's config changed,
\* pushed its own config after the read-back and returned Ok
C3_Witness ==
    /\ Returned /\ result = "Ok" /\ op = "receive"
    /\ ~handle /\ sync.called /\ ~sync.blocking
    /\ \E g \in Positions("get_rx_conf") :
         /\ log[g].data[1] \in RXConfig
         /\ log[g].data[1] # sync.new
         /\ log[g + 1].req = "set_rx_conf"

-----------------------------------------------------------------------------
(* receive() *)

\* C4: receive() on a session without cached RX config returns NoRXConfig at
\* once: no open, no version request, no ioctl and no read is sent, and no
\* handle is taken, in blocking and non-blocking sessions.
C4_ReceiveWithoutConfig ==
    (op = "receive" /\ rx_config = None) =>
        /\ pc = "idle"
        /\ result = "NoRXConfig"
        /\ log = <<>>
        /\ local = "none"

\* receive() returned NoRXConfig on a blocking session
C4_Witness ==
    /\ alive /\ handle /\ op = "receive" /\ Returned
    /\ result = "NoRXConfig" /\ rx_config = None

\* C5: a receive() that returns Ok leaves the driver receiving with the
\* session's cached config; in particular after reset() has stopped
\* reception the next receive() starts it again (lib.rs:172, 300), in blocking
\* sessions as in non-blocking ones.
C5_ReceiveResumesReception ==
    [][(op = "receive" /\ pc = "read" /\ pc' = "idle" /\ result' = "Ok") =>
         (drvReceiving' /\ drvRx' = rx_config[1])]_vars

\* the read requests of the operation, in order
ReadResults == SelectSeq(log, LAMBDA e : e.req = "read")

\* the packets vector the first n of the reads make
PacketsOf(reads, n) ==
    [i \in 1..n |-> [data |-> reads[i].data[1], len |-> rx_config[1].packet_length]]

\* C6: a receive() that returns Ok has sent its reads one after another, the
\* last of them answered ENOMSG and all before it successful; it returns the
\* packets of the successful reads, one per read and in their order (none
\* when the first read answered ENOMSG); a read answered ENOMSG always ends
\* receive() with Ok.  While the loop runs the vector holds the packets read
\* so far.
C6_ReceiveReturnsAllPacketsInOrder ==
    (op = "receive" /\ rx_config # None) =>
        /\ \A i \in 1..Len(log) :
             log[i].req = "read" => \A j \in i..Len(log) : log[j].req = "read"
        /\ pc = "read" =>
             /\ \A i \in 1..Len(ReadResults) : ReadResults[i].status = OK
             /\ packets = PacketsOf(ReadResults, Len(ReadResults))
        /\ (Returned /\ result = "Ok") =>
             /\ Len(ReadResults) >= 1
             /\ log[Len(log)] = Entry("read", "ENOMSG", <<>>)
             /\ \A i \in 1..(Len(ReadResults) - 1) : ReadResults[i].status = OK
             /\ packets = PacketsOf(ReadResults, Len(ReadResults) - 1)
        /\ (Returned /\ log # <<>> /\ log[Len(log)].status = "ENOMSG") =>
             result = "Ok"

\* receive() returned two different packets
C6_Witness ==
    /\ op = "receive" /\ Returned /\ result = "Ok"
    /\ Len(packets) >= 2
    /\ packets[1].data # packets[2].data

-----------------------------------------------------------------------------
(* transmit() *)

\* the operation got a usable handle from get_handle
HandleAcquired ==
    IF handle THEN result # "FileHandleClone" ELSE FreshHandleAccepted

\* C7: a transmit() that has returned sent exactly one set_tx_conf carrying
\* its tx_config once it had its handle, also when the driver already had
\* that TX config, and after it exactly one write when the push succeeded and
\* none when it failed; it sent no set_rx_conf and no get_rx_conf, with or
\* without a cached RX config.
C7_TransmitPushesThenWrites ==
    (op = "transmit" /\ Returned) =>
        /\ Positions("set_rx_conf") = {} /\ Positions("get_rx_conf") = {}
        /\ Len(Body) <= 2
        /\ HandleAcquired <=> Len(Body) >= 1
        /\ Len(Body) >= 1 =>
             /\ Body[1].req = "set_tx_conf"
             /\ Body[1].data[1] = tx_config
             /\ Body[1].status = OK <=> Len(Body) = 2
        /\ Len(Body) = 2 => Body[2].req = "write"
        /\ result = "Ok" <=> (Len(Body) = 2 /\ Body[2].status = OK)

\* transmit() returned Ok on a session without cached RX config, having
\* pushed a TX config the driver already had
C7_Witness ==
    /\ op = "transmit" /\ Returned /\ result = "Ok"
    /\ rx_config = None
    /\ Body[1].data[2] = tx_config

-----------------------------------------------------------------------------
(* Handles *)

\* C8: on a handle just opened, in new() and in the operations of a
\* non-blocking session, the request after the open is get_version and no
\* other request is sent before the version was accepted; when the driver
\* reports a version other than VERSION the operation returns
\* VersionMismatch having sent nothing but the open and the version request,
\* it keeps no handle, and new() creates no session.
C8_VersionFirst ==
    /\ \A i \in Positions("open") :
         log[i].status = OK =>
             IF i = Len(log) THEN pc = "version" ELSE log[i + 1].req = "get_version"
    /\ (op = "new" \/ ~handle) =>
         \A i \in 1..Len(log) :
             log[i].req \notin {"open", "get_version"} => (i >= 3 /\ FreshHandleAccepted)
    /\ \A i \in Positions("get_version") :
         (log[i].status = OK /\ log[i].data[1] # VERSION) =>
             /\ i = Len(log)
             /\ Returned /\ result = "VersionMismatch"
             /\ local = "none"
             /\ op = "new" => ~alive
    /\ result = "VersionMismatch" =>
         /\ Len(log) = 2
         /\ log[1] = Entry("open", OK, <<>>)
         /\ log[2].req = "get_version" /\ log[2].status = OK
         /\ log[2].data[1] # VERSION

\* receive() of a non-blocking session met a driver of another version
C8_Witness ==
    /\ alive /\ ~handle /\ op = "receive" /\ Returned
    /\ result = "VersionMismatch"

\* C9: from the return of new(.., blocking = true) to the drop of the
\* session, the session holds its handle and no other process has the device
\* open; its operations send no open; and the driver's RX config, TX config
\* and packet buffer change only by a request of this session (or, for the
\* buffer, by the radio delivering a packet).
C9_ExclusiveShutsOthersOut ==
    /\ [](alive /\ blocking =>
            /\ handle
            /\ ~otherOpen
            /\ op # "new" => Positions("open") = {})
    /\ [][(alive /\ blocking /\ alive') =>
            /\ handle'
            /\ ~otherOpen'
            /\ drvVersion' = drvVersion
            /\ drvRx' # drvRx => pc \in {"set_rx", "reset"}
            /\ drvTx' # drvTx => pc = "set_tx"
            /\ fifo' # fifo =>
                 \/ pc \in {"set_rx", "reset", "read"}
                 \/ \E p \in Payload : fifo' = Append(fifo, p)]_vars

\* a blocking session received packets while holding the device
C9_Witness ==
    /\ alive /\ blocking /\ handle
    /\ op = "receive" /\ Returned /\ result = "Ok"
    /\ packets # <<>>

\* C10: a session created with blocking = false holds no handle whenever no
\* operation of it is running, after new() and after every operation,
\* returned with Ok or with an error, so that another process can open the
\* device; and a session never changes between holding a handle and holding
\* none.
C10_NonExclusiveHoldsNothing ==
    /\ []((alive /\ ~blocking /\ pc = "idle") =>
            /\ ~handle
            /\ local = "none"
            /\ ~SessionHolds)
    /\ [][(alive /\ alive') => (handle' = handle /\ blocking' = blocking)]_vars

\* another process has opened the device after an operation of a
\* non-blocking session failed
C10_Witness ==
    /\ alive /\ ~blocking /\ pc = "idle"
    /\ op \in {"receive", "transmit", "reset", "set_rx_config"} \cup GetOps
    /\ result \notin {"Ok", "none", "pending"}
    /\ log # <<>> /\ log[Len(log)].req \notin {"open", "get_version"}
    /\ otherOpen

-----------------------------------------------------------------------------
(* Convergence of a non-exclusive session *)

\* C11: in a non-exclusive session with cached RX config C, whatever other
\* processes did to the driver between the session's calls, the driver's live
\* RX config equals C whenever receive() is about to send a read, the first
\* one included, and every successful read of that receive() was answered
\* while the live config equalled C
C11_ReceiveReadsUnderCachedConfig ==
    (alive /\ ~handle /\ op = "receive") =>
        /\ pc = "read" => drvRx = rx_config[1]
        /\ \A i \in Positions("read") :
             log[i].status = OK => log[i].data[2] = rx_config[1]

\* a non-exclusive receive() found another config in the driver, pushed its
\* own and returned a packet that arrived afterwards
C11_Witness ==
    /\ alive /\ ~handle /\ op = "receive" /\ pc = "idle" /\ result = "Ok"
    /\ packets # <<>>
    /\ \E g \in Positions("get_rx_conf") :
         log[g].status = OK /\ log[g].data[1] \in RXConfig /\ log[g].data[1] # rx_config[1]

-----------------------------------------------------------------------------
(* The cached RX config *)

\* C12: the cached RX config is the last one successfully applied: once new()
\* has returned Ok it is the config new() was given (or absent); once a
\* set_rx_config(C) has returned Ok it is C; a set_rx_config that returned an
\* error, from acquiring the handle, from the read-back or from the push, left
\* it as it was; and while the session lives no step other than the final
\* store of a successful set_rx_config changes it, so receive, transmit, reset
\* and the get_* operations never do
C12_CachedConfigIsLastApplied ==
    /\ []((alive /\ op = "new" /\ Returned) => rx_config = new_config)
    /\ []((op = "set_rx_config" /\ Returned /\ result = "Ok") => rx_config = new_config)
    /\ []((op = "set_rx_config" /\ Returned /\ result # "Ok" /\ sync.called) =>
             rx_config = sync.old)
    /\ [][(alive /\ alive' /\ rx_config' # rx_config) =>
             /\ op = "set_rx_config" /\ pc = "store"
             /\ rx_config' = new_config
             /\ result' = "Ok"]_vars

\* a set_rx_config(C) whose push failed returned the error and left another
\* config cached
C12_Witness ==
    /\ alive /\ op = "set_rx_config" /\ pc = "idle"
    /\ result \in {SetRxErr(e) : e \in SetRxFailures}
    /\ rx_config # None /\ rx_config # new_config
    /\ log # <<>> /\ log[Len(log)].req = "set_rx_conf"

-----------------------------------------------------------------------------
(* Failures *)

\* the request of log entry e failed: any status but success, except a read
\* answered ENOMSG, which is the regular end of the receive loop
RequestFailed(e) == e.status # OK /\ ~(e.req = "read" /\ e.status = "ENOMSG")

\* the error value the failure of log entry e is turned into
ErrorOf(e) ==
    CASE e.req = "open" -> OpenErr(e.status)
      [] e.req = "set_rx_conf" -> SetRxErr(e.status)
      [] e.req = "set_tx_conf" -> SetTxErr(e.status)
      [] e.req = "read" -> ReadErr(e.status)
      [] e.req = "write" -> WriteErr(e.status)
      [] OTHER -> IoctlErr(e.status)

\* C14: in every operation the first request that fails (open, version
\* request, control request, write, read other than ENOMSG) is the last
\* request of the operation: the operation has returned, its result is the
\* error value of that failure, and neither the failed request nor any other
\* request was sent after it
C14_FailStop ==
    \A i \in 1..Len(log) :
        RequestFailed(log[i]) =>
            /\ i = Len(log)
            /\ pc = "idle"
            /\ result = ErrorOf(log[i])

\* a receive() whose second read failed after a successful first one
C14_Witness ==
    /\ op = "receive" /\ pc = "idle"
    /\ Len(ReadResults) = 2
    /\ ReadResults[1].status = OK
    /\ ReadResults[2].status \in ReadFailures
    /\ result = ReadErr(ReadResults[2].status)

-----------------------------------------------------------------------------
(* The receive loop ends *)

\* no packet arrived between the successful reads rs: each found one packet
\* fewer in the driver's buffer than the one before it
NoArrivalBetween(rs) ==
    \A i \in 1..(Len(rs) - 1) : rs[i + 1].data[3] = rs[i].data[3] - 1

\* C15: receive() goes on reading only after a successful read and returns
\* as soon as a read is answered ENOMSG or fails; when the driver's buffer
\* held n packets at the first read and none arrived during the loop,
\* receive() returns after exactly n successful reads and one read answered
\* ENOMSG
C15_ReceiveLoopEnds ==
    (op = "receive" /\ ReadResults # <<>>) =>
        LET k == Len(ReadResults)
            oks == SubSeq(ReadResults, 1, k - 1)
        IN  /\ \A i \in 1..(k - 1) : ReadResults[i].status = OK
            /\ ReadResults[k].status # OK <=> pc = "idle"
            /\ ( /\ ReadResults[k].status = "ENOMSG"
                 /\ k >= 2
                 /\ NoArrivalBetween(oks) ) => k - 1 = ReadResults[1].data[3]

\* a receive() that found one packet buffered read it, was then told ENOMSG
\* and returned
C15_Witness ==
    /\ op = "receive" /\ pc = "idle" /\ result = "Ok"
    /\ Len(ReadResults) = 2
    /\ ReadResults[1].status = OK /\ ReadResults[1].data[3] = 1
    /\ ReadResults[2].status = "ENOMSG"

-----------------------------------------------------------------------------
(* Two receivers on one device *)

\* a successful receive() or set_rx_config() of the peer
PeerStep == PeerReceive \/ \E c \in RXConfig : PeerSetRxConfig(c)

\* C13: with two non-exclusive sessions on one device, a successful receive()
\* or set_rx_config() of one leaves its config live in the driver; when the
\* cached configs differ, the next receive() of the other whose read-back is
\* answered sends a set_rx_conf, and every change of the live config empties
\* the driver's buffer, so the packets buffered before it reach no session;
\* when the cached configs are equal, no receive() of either session sends a
\* set_rx_conf or changes the live config
C13_SharedReceiversLosePackets ==
    /\ [][PeerStep => drvRx' = peer_config'[1]]_vars
    /\ [][( /\ op = "receive" /\ pc = "get_rx" /\ log' # log /\ pc' # "idle"
            /\ peer_config # None /\ rx_config # peer_config
            /\ drvRx = peer_config[1] ) => pc' = "set_rx"]_vars
    /\ [][( /\ PeerReceive
            /\ alive /\ rx_config # None /\ rx_config # peer_config
            /\ drvRx = rx_config[1] ) => drvRx' = peer_config[1]]_vars
    /\ [][drvRx' # drvRx => fifo' = <<>>]_vars
    /\ [][( /\ rx_config # None /\ rx_config = peer_config
            /\ (op = "receive" /\ pc = "get_rx") \/ PeerReceive )
          => (pc' # "set_rx" /\ drvRx' = drvRx)]_vars

\* a receive() found the peer's config live with a packet buffered, pushed its
\* own config and returned without that packet
C13_Witness ==
    /\ alive /\ op = "receive" /\ pc = "idle" /\ result = "Ok"
    /\ peer_config # None /\ rx_config # peer_config
    /\ packets = <<>>
    /\ \E i \in Positions("set_rx_conf") :
         /\ log[i].status = OK
         /\ log[i].data[2] = peer_config[1]
         /\ log[i].data[3] >= 1

-----------------------------------------------------------------------------
(* f32 arithmetic of config.rs.  A non-negative f32 is the record [m, e]
   standing for m * 2^e, with 2^23 <= m < 2^24 or m = 0: 24 significant bits.
   Every operation rounds its exact result to the nearest f32, ties to the
   even mantissa.  All intermediate integers stay below 2^31. *)

Pow2(n) == 2^n

\* number of bits of n
RECURSIVE BitLen(_)
BitLen(n) == IF n = 0 THEN 0 ELSE 1 + BitLen(n \div 2)

F32Zero == [m |-> 0, e |-> 0]

\* n / 2^s rounded to the nearest integer, ties to even; sticky says that
\* non-zero bits below n were dropped before
RoundShift(n, s, sticky) ==
    LET q == n \div Pow2(s)
        r == n % Pow2(s)
        half == Pow2(s - 1)
    IN  IF r > half \/ (r = half /\ (sticky \/ q % 2 = 1)) THEN q + 1 ELSE q

\* the f32 nearest to n * 2^e (plus a little, when sticky)
F32Norm(n, e, sticky) ==
    IF n = 0 THEN F32Zero
    ELSE LET b == BitLen(n)
         IN  IF b <= 24
             THEN [m |-> n * Pow2(24 - b), e |-> e - (24 - b)]
             ELSE LET q == RoundShift(n, b - 24, sticky)
                  IN  IF q = Pow2(24)
                      THEN [m |-> Pow2(23), e |-> e + (b - 24) + 1]
                      ELSE [m |-> q, e |-> e + (b - 24)]

\* `n as f32`
F32OfInt(n) == F32Norm(n, 0, FALSE)

\* x * 2^k, exact
F32Scale(x, k) == IF x.m = 0 THEN x ELSE [x EXCEPT !.e = @ + k]

\* x * k for a small integer k (x.m * k < 2^31)
F32MulInt(x, k) == F32Norm(x.m * k, x.e, FALSE)

\* x * k for an integer 2^13 <= k < 2^15: the product is built from the two
\* 12-bit halves of the mantissa
F32MulWide(x, k) ==
    LET h == x.m \div 4096
        lk == (x.m % 4096) * k
    IN  F32Norm(h * k + lk \div 4096, x.e + 12, lk % 4096 # 0)

\* long division: quotient bits are added until the quotient has 26 bits
RECURSIVE LongDiv(_, _, _, _)
LongDiv(q, r, d, s) ==
    IF q >= Pow2(25) THEN [q |-> q, r |-> r, s |-> s]
    ELSE LongDiv(2 * q + (2 * r) \div d, (2 * r) % d, d, s + 1)

\* x / d for an integer 0 < d <= 10^6
F32DivInt(x, d) ==
    IF x.m = 0 THEN F32Zero
    ELSE LET a == LongDiv(x.m \div d, x.m % d, d, 0)
         IN  F32Norm(a.q, x.e - a.s, a.r # 0)

\* the f32 a decimal literal n / d is compiled to
F32Dec(n, d) == F32DivInt([m |-> n, e |-> 0], d)

\* x <= y
F32Le(x, y) ==
    IF x.m = 0 THEN TRUE
    ELSE IF y.m = 0 THEN FALSE
    ELSE x.e < y.e \/ (x.e = y.e /\ x.m <= y.m)

\* (lo..=hi).contains(&x)
F32In(x, lo, hi) == F32Le(lo, x) /\ F32Le(x, hi)

\* `x as u32` for x < 2^31: the fraction is cut off
F32Trunc(x) ==
    IF x.e >= 0 THEN x.m * Pow2(x.e)
    ELSE IF x.e < -24 THEN 0
    ELSE x.m \div Pow2(-x.e)

\* x.round() as an integer: to the nearest, halves away from zero
F32RoundInt(x) ==
    IF x.e >= 0 THEN x.m * Pow2(x.e)
    ELSE IF x.e < -24 THEN 0
    ELSE (x.m + Pow2(-x.e - 1)) \div Pow2(-x.e)

-----------------------------------------------------------------------------
(* The conversions of CommonConfig, config.rs *)

\* a Result: Ok(v) or Err(CC1101Error::Config(e))
Ok(v) == [res |-> "Ok", val |-> v]
Err(e) == [res |-> e, val |-> <<>>]

\* the constants the conversions divide and multiply by, as odd factor times
\* power of two: XTAL_FREQ = 26.0 = 13 * 2, 1000.0 = 125 * 2^3,
\* 10^6 = 15625 * 2^6, xtal_freq = 26000000.0 = 203125 * 2^7
F32Div26(x) == F32Scale(F32DivInt(x, 13), -1)
F32Mul1000(x) == F32Scale(F32MulInt(x, 125), 3)
F32Div1000(x) == F32Scale(F32DivInt(x, 125), -3)
F32MulMillion(x) == F32Scale(F32MulWide(x, 15625), 6)
F32DivMillion(x) == F32Scale(F32DivInt(x, 15625), -6)
F32DivXtalHz(x) == F32Scale(F32DivInt(x, 203125), -7)

\* config.rs:256-259: round(value, 6)
round(value) == F32DivMillion(F32OfInt(F32RoundInt(F32MulMillion(value))))

\* config.rs:298-300: the three ranges a frequency must lie in, each literal
\* as the f32 it is compiled to
FrequencyRanges ==
    << <<F32Dec(29999976, 100000), F32Dec(34799994, 100000)>>,
       <<F32Dec(38699994, 100000), F32Dec(4639998, 10000)>>,
       <<F32Dec(7789999, 10000), F32OfInt(928)>> >>

\* frequency_valid that takes the bands at their nominal limits
frequency_valid_Nominal(frequency) ==
    \/ F32In(frequency, F32OfInt(300), F32OfInt(348))
    \/ F32In(frequency, F32OfInt(387), F32OfInt(464))
    \/ F32In(frequency, F32OfInt(779), F32OfInt(928))

\* config.rs:298-300: (a..=b).contains(&frequency) for one of the ranges
frequency_valid(frequency) ==
    \E i \in 1..3 : F32In(frequency, FrequencyRanges[i][1], FrequencyRanges[i][2])

\* config.rs:297-307
frequency_to_config(frequency) ==
    IF ~frequency_valid(frequency) THEN Err("InvalidFrequency")
    ELSE Ok(F32Trunc(F32Div26(F32Scale(frequency, 16))))

\* config.rs:311-313: XTAL_FREQ / 2^16 is 13 * 2^-15
config_to_frequency(config) == F32Scale(F32MulInt(F32OfInt(config), 13), -15)

\* config.rs:12-23
Modulations == {"FSK2", "GFSK", "OOK", "FSK4", "MSK"}

\* config.rs:335-340: the range of each modulation, each literal as the f32
\* it is compiled to
BaudRateRanges ==
    [modulation \in Modulations |->
        CASE modulation \in {"GFSK", "OOK"} ->
               <<F32Dec(599742, 1000000), F32Dec(249939, 1000)>>
          [] modulation = "FSK2" -> <<F32Dec(599742, 1000000), F32OfInt(500)>>
          [] modulation = "FSK4" -> <<F32Dec(599742, 1000000), F32Dec(299927, 1000)>>
          [] modulation = "MSK" -> <<F32Dec(259857, 10000), F32Dec(499878, 1000)>>]

\* valid_baud_rate that gives every modulation the range of 2-FSK
valid_baud_rate_SameForAll(modulation, baud_rate) ==
    F32In(baud_rate, BaudRateRanges["FSK2"][1], BaudRateRanges["FSK2"][2])

\* config.rs:335-340: (a..=b).contains(&baud_rate)
valid_baud_rate(modulation, baud_rate) ==
    F32In(baud_rate, BaudRateRanges[modulation][1], BaudRateRanges[modulation][2])

\* config.rs:350: how far, in steps of the mantissa, x may be from a power of
\* two for the rounding of ln(x) / ln(2) to decide which side of the integer
\* the logarithm falls on
LogSlack == 8

\* config.rs:350: the values x.log(2.0).floor() can take.  The exact value is
\* x.e + 23; f32::log divides two rounded natural logarithms, so next to a
\* power of two the result may fall on either side of the integer, and which
\* one depends on the libm the build links
LogFloors(x) ==
    LET k == x.e + 23
    IN  IF x.m - Pow2(23) <= LogSlack THEN {k - 1, k}
        ELSE IF Pow2(24) - x.m <= LogSlack THEN {k, k + 1}
        ELSE {k}

\* config.rs:351-352: the mantissa for r_data and exponent, rounded and
\* narrowed with `as u8`, which saturates
Mantissa(r_data, exponent) ==
    LET y == F32Scale(F32DivInt(F32Scale(r_data, 28), 203125), -(7 + exponent))
        s == -y.e
        n == y.m - 256 * Pow2(s)
        rounded == IF n < 0 THEN 0 ELSE (n + Pow2(s - 1)) \div Pow2(s)
    IN  IF rounded > 255 THEN 255 ELSE rounded

\* config.rs:331-357: the results baud_rate_to_config can return
baud_rate_to_config(modulation, baud_rate) ==
    IF ~valid_baud_rate(modulation, baud_rate) THEN {Err("InvalidBaudRate")}
    ELSE LET r_data == F32Mul1000(baud_rate)
         IN  {Ok(<<Mantissa(r_data, exponent), exponent>>) :
                exponent \in LogFloors(F32DivXtalHz(F32Scale(r_data, 20)))}

\* config.rs:361-369
config_to_baud_rate(mantissa, exponent) ==
    LET r_data == F32Norm((256 + mantissa) * 203125, exponent - 21, FALSE)
    IN  round(F32Div1000(r_data))

\* a u32 is kept as its two 16-bit halves <<msb, lsb>>
U32(msb, lsb) == <<msb, lsb>>

\* sync_word_to_config that accepts no value above 0xFFFF
sync_word_to_config_LowOnly(sync_word) ==
    IF sync_word[1] > 0 THEN Err("InvalidSyncWord") ELSE Ok(sync_word)

\* config.rs:442-453: sync_word > 0xFFFF says the upper half is not zero;
\* lsb is sync_word & 0xFFFF, msb is sync_word >> 16
sync_word_to_config(sync_word) ==
    IF sync_word[1] > 0
    THEN LET lsb == sync_word[2]
             msb == sync_word[1]
         IN  IF lsb # msb THEN Err("InvalidSyncWord") ELSE Ok(sync_word)
    ELSE Ok(sync_word)

\* the pair a loop over mantissa (outer) and exponent (inner) reaches first
\* among the pairs S: config.rs:417-424, 548-555
FirstPair(S) ==
    CHOOSE p \in S : \A q \in S : p[1] < q[1] \/ (p[1] = q[1] /\ p[2] <= q[2])

\* config.rs:408-413: (26 MHz / 2^17) * (mantissa + 8) * 2^exponent, exact
\* in f32, then divided by 1000 and rounded to six decimals
config_to_deviation(mantissa, exponent) ==
    LET dev == F32Norm(203125 * (mantissa + 8), exponent - 10, FALSE)
    IN  round(F32Div1000(dev))

\* config.rs:417-420: the 64 pairs of the loop, each with the value it
\* decodes to: <<mantissa, exponent, kHz>>
DeviationTable ==
    {<<p[1], p[2], config_to_deviation(p[1], p[2])>> : p \in (0..7) \X (0..7)}

\* config.rs:416-426: the first of the 64 pairs that decodes to deviation
deviation_to_config(deviation) ==
    LET S == {<<t[1], t[2]>> : t \in {u \in DeviationTable : u[3] = deviation}}
    IN  IF S = {} THEN Err("InvalidDeviation") ELSE Ok(FirstPair(S))

\* config_to_bandwidth that rounds the kHz value to the nearest integer
config_to_bandwidth_Rounded(mantissa, exponent) ==
    LET bw_channel == F32Scale(F32DivInt(F32OfInt(26000000), mantissa + 4),
                               -(3 + exponent))
    IN  F32RoundInt(F32Div1000(bw_channel))

\* config.rs:540-544: 26 MHz / (8 * (mantissa + 4) * 2^exponent), divided by
\* 1000 and cut to an integer by `as u32`
config_to_bandwidth(mantissa, exponent) ==
    LET bw_channel == F32Scale(F32DivInt(F32OfInt(26000000), mantissa + 4),
                               -(3 + exponent))
    IN  F32Trunc(F32Div1000(bw_channel))

\* config.rs:548-551: the 16 pairs of the loop, each with the value it
\* decodes to: <<mantissa, exponent, kHz>>
BandwidthTable ==
    {<<p[1], p[2], config_to_bandwidth(p[1], p[2])>> : p \in (0..3) \X (0..3)}

\* config.rs:547-557: the first of the 16 pairs that decodes to bandwidth
bandwidth_to_config(bandwidth) ==
    LET S == {<<t[1], t[2]>> : t \in {u \in BandwidthTable : u[3] = bandwidth}}
    IN  IF S = {} THEN Err("InvalidBandwidth") ELSE Ok(FirstPair(S))

-----------------------------------------------------------------------------
(* TX power, config.rs:674-819 *)

\* |x - y| in f32.  The exact difference is rounded once; when the exponents
\* are far apart the smaller operand only decides the rounding
F32AbsDiff(x, y) ==
    LET big == IF F32Le(x, y) THEN y ELSE x
        small == IF F32Le(x, y) THEN x ELSE y
        k == big.e - small.e
    IN  IF small.m = 0 THEN big
        ELSE IF k <= 6 THEN F32Norm(big.m * Pow2(k) - small.m, small.e, FALSE)
        ELSE LET q == IF k >= 31 THEN 0 ELSE small.m \div Pow2(k - 6)
                 rem == IF k >= 31 THEN small.m ELSE small.m % Pow2(k - 6)
             IN  IF rem = 0 THEN F32Norm(big.m * 64 - q, big.e - 6, FALSE)
                 ELSE F32Norm(big.m * 64 - q - 1, big.e - 6, TRUE)

\* frequency_near that also takes a frequency exactly 1 MHz away
frequency_near_Inclusive(frequency, target_frequency) ==
    F32Le(F32AbsDiff(frequency, F32OfInt(target_frequency)), F32OfInt(1))

\* config.rs:676-678: (frequency - target_frequency).abs() < 1.0
frequency_near(frequency, target_frequency) ==
    ~F32Le(F32OfInt(1), F32AbsDiff(frequency, F32OfInt(target_frequency)))

\* A power in dBm is an integer number of 2^-27 dBm: every f32 from 1/16 to
\* 16 in size is one, and so is 0.
\* patable.rs is not part of the sources at hand.  Each table is an ordered
\* list of (PATABLE byte, dBm) pairs with 70 to 110 entries; three entries
\* stand for each.  Of their contents the sources show only that 0.1 dBm is
\* in the 433 MHz table (config.rs:707) and that the byte 0xFF and -1.0 dBm
\* are not (config.rs:962-963)
TX_POWERS_315 == << <<81, 0>>, <<133, 5 * Pow2(27)>>, <<203, 7 * Pow2(27)>> >>
TX_POWERS_433 == << <<96, 13421773>>, <<132, 5 * Pow2(27)>>, <<200, 7 * Pow2(27)>> >>
TX_POWERS_868 == << <<80, 0>>, <<134, 5 * Pow2(27)>>, <<205, 7 * Pow2(27)>> >>
TX_POWERS_915 == << <<142, 0>>, <<131, 5 * Pow2(27)>>, <<204, 7 * Pow2(27)>> >>

\* config.rs:681-693
get_power_table(frequency) ==
    IF frequency_near(frequency, 315) THEN Ok(TX_POWERS_315)
    ELSE IF frequency_near(frequency, 433) THEN Ok(TX_POWERS_433)
    ELSE IF frequency_near(frequency, 868) THEN Ok(TX_POWERS_868)
    ELSE IF frequency_near(frequency, 915) THEN Ok(TX_POWERS_915)
    ELSE Err("InvalidFrequency")

\* config.rs:772: f32::EPSILON = 2^-23, in units of 2^-27 dBm
Epsilon == 16

\* config.rs:772: (dbm - tx_power).abs() < f32::EPSILON.  A difference below
\* 2^-23 of two multiples of 2^-27 has at most four bits, so the f32
\* subtraction is exact wherever the test can hold
PowerMatches(dbm, power) ==
    (IF dbm >= power THEN dbm - power ELSE power - dbm) < Epsilon

\* the first of the indices I of a table, where the scan returns; 0 when
\* there is none
FirstEntry(I) == IF I = {} THEN 0 ELSE CHOOSE i \in I : \A j \in I : i <= j

\* config.rs:768-778
tx_power_to_config(frequency, power) ==
    LET power_table == get_power_table(frequency)
    IN  IF power_table.res # "Ok" THEN power_table
        ELSE LET i == FirstEntry({j \in 1..Len(power_table.val) :
                                    PowerMatches(power_table.val[j][2], power)})
             IN  IF i = 0 THEN Err("InvalidTXPower") ELSE Ok(power_table.val[i][1])

\* config.rs:783-793
config_to_tx_power(frequency, power) ==
    LET power_table == get_power_table(frequency)
    IN  IF power_table.res # "Ok" THEN power_table
        ELSE LET i == FirstEntry({j \in 1..Len(power_table.val) :
                                    power_table.val[j][1] = power})
             IN  IF i = 0 THEN Err("InvalidTXPower") ELSE Ok(power_table.val[i][2])

-----------------------------------------------------------------------------
(* The validating setters of RXConfig, config.rs:582-656.  Each takes the
   RX-specific fields and returns them changed, or an error.  An Option is
   <<>> for None and <<v>> for Some(v); a CarrierSense is <<kind, dB>> *)

\* config.rs:582-607
set_carrier_sense(self, carrier_sense) ==
    IF carrier_sense = <<>>
    THEN Ok([self EXCEPT !.carrier_sense_mode = "Disabled", !.carrier_sense = 0])
    ELSE LET kind == carrier_sense[1][1]
             value == carrier_sense[1][2]
         IN  IF kind = "Relative"
             THEN IF value \in {6, 10, 14}
                  THEN Ok([self EXCEPT !.carrier_sense_mode = "Relative",
                                       !.carrier_sense = value])
                  ELSE Err("InvalidCarrierSense")
             ELSE IF value \in (-7)..7
                  THEN Ok([self EXCEPT !.carrier_sense_mode = "Absolute",
                                       !.carrier_sense = value])
                  ELSE Err("InvalidCarrierSense")

\* config.rs:562-567
set_bandwidth(self, bandwidth) ==
    LET r == bandwidth_to_config(bandwidth)
    IN  IF r.res = "Ok"
        THEN Ok([self EXCEPT !.bandwidth_mantissa = r.val[1],
                             !.bandwidth_exponent = r.val[2]])
        ELSE r

\* config.rs:620-626
set_max_lna_gain(self, max_lna_gain) ==
    IF max_lna_gain \in {0, 3, 6, 7, 9, 12, 15, 17}
    THEN Ok([self EXCEPT !.max_lna_gain = max_lna_gain])
    ELSE Err("InvalidMaxLNAGain")

\* config.rs:635-641
set_max_dvga_gain(self, max_dvga_gain) ==
    IF max_dvga_gain \in {0, 6, 12, 18}
    THEN Ok([self EXCEPT !.max_dvga_gain = max_dvga_gain])
    ELSE Err("InvalidMaxDVGAGain")

\* config.rs:650-656
set_magn_target(self, magn_target) ==
    IF magn_target \in {24, 27, 30, 33, 36, 38, 40, 42}
    THEN Ok([self EXCEPT !.magn_target = magn_target])
    ELSE Err("InvalidMagnTarget")

\* config.rs:664-666: set_packet_length checks nothing
set_packet_length(self, packet_length) ==
    [self EXCEPT !.packet_length = packet_length]

-----------------------------------------------------------------------------
(* The constructors, config.rs:271-293, 485-525, 710-763.  The arguments are
   the fields of the record a.  A constructor returns a set of results,
   because baud_rate_to_config does *)

\* config.rs:271-293: the setters are called on the default config one after
\* the other; b is what baud_rate_to_config returned
CommonConfig_new_with(a, b) ==
    LET config == DefaultCommonConfig
        AfterSyncWord(c) ==
            IF a.deviation = <<>> THEN Ok(c)
            ELSE LET d == deviation_to_config(a.deviation[1])
                 IN  IF d.res = "Ok"
                     THEN Ok([c EXCEPT !.deviation_mantissa = d.val[1],
                                       !.deviation_exponent = d.val[2]])
                     ELSE d
        AfterBaudRate(c) ==
            LET w == sync_word_to_config(IF a.sync_word = <<>> THEN U32(0, 0)
                                                              ELSE a.sync_word[1])
            IN  IF w.res = "Ok"
                THEN AfterSyncWord([c EXCEPT !.sync_word = w.val])
                ELSE w
        AfterFrequency(c) ==
            IF b.res = "Ok"
            THEN AfterBaudRate([c EXCEPT !.modulation = a.modulation,
                                         !.baud_rate_mantissa = b.val[1],
                                         !.baud_rate_exponent = b.val[2]])
            ELSE b
        f == frequency_to_config(a.frequency)
    IN  IF f.res = "Ok" THEN AfterFrequency([config EXCEPT !.frequency = f.val])
        ELSE f

\* config.rs:271-293
CommonConfig_new(a) ==
    IF frequency_to_config(a.frequency).res # "Ok"
    THEN {frequency_to_config(a.frequency)}
    ELSE {CommonConfig_new_with(a, b) :
            b \in baud_rate_to_config(a.modulation, a.baud_rate)}

\* config.rs:498-524: what RXConfig::new does once it has common
RXConfig_new_from(a, common_config) ==
    LET Then(r, Rest(_)) == IF r.res = "Ok" THEN Rest(r.val) ELSE r
        Optional(self, option, Set(_, _)) ==
            IF option = <<>> THEN Ok(self) ELSE Set(self, option[1])
        AfterDvga(self) == Optional(self, a.magn_target, set_magn_target)
        AfterLna(self) == Then(Optional(self, a.max_dvga_gain, set_max_dvga_gain),
                               AfterDvga)
        AfterBandwidth(self) == Then(Optional(self, a.max_lna_gain, set_max_lna_gain),
                                     AfterLna)
        AfterCarrierSense(self) == Then(Optional(self, a.bandwidth, set_bandwidth),
                                        AfterBandwidth)
        Wrap(self) == Ok([common |-> common_config, specific |-> self])
        rx_config_0 == [DefaultRXSpecific EXCEPT !.packet_length = a.packet_length]
    IN  Then(Then(set_carrier_sense(rx_config_0, a.carrier_sense), AfterCarrierSense),
             Wrap)

\* RXConfig::new that looks at the carrier sense before anything else
RXConfig_new_CarrierSenseFirst(a) ==
    LET cs == set_carrier_sense(DefaultRXSpecific, a.carrier_sense)
    IN  {IF cs.res # "Ok" THEN cs
         ELSE IF c.res = "Ok" THEN RXConfig_new_from(a, c.val) ELSE c :
            c \in CommonConfig_new(a)}

\* config.rs:485-525
RXConfig_new(a) ==
    {IF c.res = "Ok" THEN RXConfig_new_from(a, c.val) ELSE c :
        c \in CommonConfig_new(a)}

\* config.rs:710-728: the power is looked up for the frequency the config
\* decodes to (config.rs:798-801)
TXConfig_new(a) ==
    LET SetTxPowerOn(common_config) ==
            LET t == tx_power_to_config(config_to_frequency(common_config.frequency),
                                        a.tx_power)
            IN  IF t.res = "Ok" THEN Ok([common |-> common_config, tx_power |-> t.val])
                ELSE t
    IN  {IF c.res = "Ok" THEN SetTxPowerOn(c.val) ELSE c : c \in CommonConfig_new(a)}

\* config.rs:753-763
TXConfig_new_raw(a) ==
    {IF c.res = "Ok" THEN Ok([common |-> c.val, tx_power |-> a.tx_power]) ELSE c :
        c \in CommonConfig_new(a)}

-----------------------------------------------------------------------------
(* The setters of CommonConfig and the values they are called with *)

\* how many f32 steps around each limit of a band the frequencies cover
FreqSteps == 9

\* how many f32 steps around each limit of a range the baud rates cover
RateSteps == 1

\* the largest exponent register value decoded
MaxExponent == 15

\* the f32 with u / 2^15 MHz
MHz15(u) == F32Norm(u, -15, FALSE)

\* the nominal limits of the three bands, config.rs:316
BandEdges == {300, 348, 387, 464, 779, 928}

\* frequencies: around every band limit, the values of test_freq
\* (config.rs:828-854), 840 MHz, and a stretch inside the upper band
Frequencies ==
    {MHz15(mhz * Pow2(15) + d) : mhz \in BandEdges, d \in (-FreqSteps)..FreqSteps}
    \cup {F32OfInt(mhz) : mhz \in {0, 315, 433, 840, 868, 915, 999}}
    \cup {MHz15(832 * Pow2(15) + d) : d \in 0..(4 * FreqSteps)}

\* the limits of the baud-rate ranges, config.rs:336-339
RateLimits ==
    {BaudRateRanges[modulation][i] : modulation \in Modulations, i \in 1..2}

\* baud rates: around every limit of the code, the nominal limits of the
\* table at config.rs:373-381, values of test_baud_rate (config.rs:861-919),
\* and 203.1 kBaud, in the last 1/1024 below 26 MHz * 2^-7
Rates ==
    {F32Norm(x.m + k, x.e, FALSE) : x \in RateLimits, k \in (-RateSteps)..RateSteps}
    \cup {F32Dec(6, 10), F32OfInt(1), F32OfInt(26), F32OfInt(250), F32OfInt(300),
          F32Dec(115051, 1000), F32Dec(2031, 10), F32Zero, F32OfInt(999)}

\* 16-bit halves of the sync words: those of test_sync_word (config.rs:937-943)
Half16 == {0, 1, 43690, 48059, 65535}
SyncWords == {U32(msb, lsb) : msb \in Half16, lsb \in Half16}

\* a setter of common returned
Called(fn, args, r) == call' = [fn |-> fn, args |-> args, res |-> r.res, val |-> r.val]

\* config.rs:318-321: set_frequency(frequency)
SetFrequency(frequency) ==
    LET r == frequency_to_config(frequency)
    IN  /\ Called("set_frequency", <<frequency>>, r)
        /\ common' = (IF r.res = "Ok" THEN [common EXCEPT !.frequency = r.val]
                                      ELSE common)
        /\ UNCHANGED <<sessVars, opVars, drvVars, peer_config, rx_specific, tx_power>>

\* set_modulation_and_baud_rate that stores the modulation before it converts
\* the baud rate
SetModulationAndBaudRate_ModulationFirst(modulation, baud_rate) ==
    \E r \in baud_rate_to_config(modulation, baud_rate) :
        /\ Called("set_modulation_and_baud_rate", <<modulation, baud_rate>>, r)
        /\ common' = (IF r.res = "Ok"
                      THEN [common EXCEPT !.modulation = modulation,
                                          !.baud_rate_mantissa = r.val[1],
                                          !.baud_rate_exponent = r.val[2]]
                      ELSE [common EXCEPT !.modulation = modulation])
        /\ UNCHANGED <<sessVars, opVars, drvVars, peer_config, rx_specific, tx_power>>

\* config.rs:383-393: set_modulation_and_baud_rate(modulation, baud_rate)
SetModulationAndBaudRate(modulation, baud_rate) ==
    \E r \in baud_rate_to_config(modulation, baud_rate) :
        /\ Called("set_modulation_and_baud_rate", <<modulation, baud_rate>>, r)
        /\ common' = (IF r.res = "Ok"
                      THEN [common EXCEPT !.modulation = modulation,
                                          !.baud_rate_mantissa = r.val[1],
                                          !.baud_rate_exponent = r.val[2]]
                      ELSE common)
        /\ UNCHANGED <<sessVars, opVars, drvVars, peer_config, rx_specific, tx_power>>

\* config.rs:461-464: set_sync_word(sync_word)
SetSyncWord(sync_word) ==
    LET r == sync_word_to_config(sync_word)
    IN  /\ Called("set_sync_word", <<sync_word>>, r)
        /\ common' = (IF r.res = "Ok" THEN [common EXCEPT !.sync_word = r.val]
                                      ELSE common)
        /\ UNCHANGED <<sessVars, opVars, drvVars, peer_config, rx_specific, tx_power>>

NextFrequency == \E frequency \in Frequencies : SetFrequency(frequency)
SpecFrequency == Init /\ [][NextFrequency]_vars

NextBaudRate ==
    \E modulation \in Modulations, baud_rate \in Rates :
        SetModulationAndBaudRate(modulation, baud_rate)
SpecBaudRate == Init /\ [][NextBaudRate]_vars

NextSyncWord == \E sync_word \in SyncWords : SetSyncWord(sync_word)
SpecSyncWord == Init /\ [][NextSyncWord]_vars

\* a CommonConfig whose baud-rate registers hold mantissa and exponent, as
\* one read from the device does, is about to be written back through
\* get_baud_rate and set_modulation_and_baud_rate
InitRoundTrip ==
    /\ InitSession
    /\ \E modulation \in Modulations, mantissa \in 0..255, exponent \in 0..MaxExponent :
         /\ common = [DefaultCommonConfig EXCEPT !.modulation = modulation,
                                                 !.baud_rate_mantissa = mantissa,
                                                 !.baud_rate_exponent = exponent]
         /\ call = NoCall
    /\ rx_specific = DefaultRXSpecific
    /\ tx_power = DefaultTXPower

\* config.rs:401-403: get_baud_rate()
get_baud_rate == config_to_baud_rate(common.baud_rate_mantissa, common.baud_rate_exponent)

\* config.rs:401-403, 383-393: set_modulation_and_baud_rate(get_modulation(),
\* get_baud_rate()); the registers it was called on are noted in args
BaudRoundTrip ==
    /\ call = NoCall
    /\ \E r \in baud_rate_to_config(common.modulation, get_baud_rate) :
         /\ call' = [fn |-> "baud_round_trip",
                     args |-> <<common.modulation, common.baud_rate_mantissa,
                                common.baud_rate_exponent>>,
                     res |-> r.res, val |-> r.val]
         /\ common' = (IF r.res = "Ok"
                       THEN [common EXCEPT !.baud_rate_mantissa = r.val[1],
                                           !.baud_rate_exponent = r.val[2]]
                       ELSE common)
    /\ UNCHANGED <<sessVars, opVars, drvVars, peer_config, rx_specific, tx_power>>

NextRoundTrip == BaudRoundTrip
SpecRoundTrip == InitRoundTrip /\ [][NextRoundTrip]_vars

-----------------------------------------------------------------------------
(* The table lookups: deviation and bandwidth *)

\* the largest bandwidth in kHz set_bandwidth is called with
MaxBandwidth == 813

\* how many f32 steps around each decoded deviation the deviations cover
DevSteps == 1

Bandwidths == 0..MaxBandwidth

\* deviations: around each of the 64 decoded values, and the values of
\* test_deviation (config.rs:926-931)
Deviations ==
    {F32Norm(t[3].m + k, t[3].e, FALSE) :
        t \in DeviationTable, k \in (-DevSteps)..DevSteps}
    \cup {F32Zero, F32OfInt(400), F32Dec(1586914, 1000000), F32Dec(38085938, 100000)}

\* config.rs:429-434: set_deviation(deviation)
SetDeviation(deviation) ==
    LET r == deviation_to_config(deviation)
    IN  /\ Called("set_deviation", <<deviation>>, r)
        /\ common' = (IF r.res = "Ok"
                      THEN [common EXCEPT !.deviation_mantissa = r.val[1],
                                          !.deviation_exponent = r.val[2]]
                      ELSE common)
        /\ UNCHANGED <<sessVars, opVars, drvVars, peer_config, rx_specific, tx_power>>

\* config.rs:562-567: set_bandwidth(bandwidth)
SetBandwidth(bandwidth) ==
    LET r == bandwidth_to_config(bandwidth)
    IN  /\ Called("set_bandwidth", <<bandwidth>>, r)
        /\ rx_specific' = (IF r.res = "Ok"
                           THEN [rx_specific EXCEPT !.bandwidth_mantissa = r.val[1],
                                                    !.bandwidth_exponent = r.val[2]]
                           ELSE rx_specific)
        /\ UNCHANGED <<sessVars, opVars, drvVars, peer_config, common, tx_power>>

\* config.rs:437-439: get_deviation()
get_deviation == config_to_deviation(common.deviation_mantissa, common.deviation_exponent)

\* config.rs:570-572: get_bandwith()
get_bandwith ==
    config_to_bandwidth(rx_specific.bandwidth_mantissa, rx_specific.bandwidth_exponent)

\* an RXConfig whose deviation or bandwidth registers hold an arbitrary pair,
\* as one read from the device does
InitLookup ==
    /\ InitSession
    /\ call = NoCall
    /\ tx_power = DefaultTXPower
    /\ \/ /\ rx_specific = DefaultRXSpecific
          /\ \E p \in (0..7) \X (0..7) :
               common = [DefaultCommonConfig EXCEPT !.deviation_mantissa = p[1],
                                                    !.deviation_exponent = p[2]]
       \/ /\ common = DefaultCommonConfig
          /\ \E p \in (0..3) \X (0..3) :
               rx_specific = [DefaultRXSpecific EXCEPT !.bandwidth_mantissa = p[1],
                                                       !.bandwidth_exponent = p[2]]

\* set_deviation(get_deviation()); the registers it was called on are noted
\* in args
DeviationRoundTrip ==
    LET r == deviation_to_config(get_deviation)
    IN  /\ call' = [fn |-> "deviation_round_trip",
                    args |-> <<common.deviation_mantissa, common.deviation_exponent>>,
                    res |-> r.res, val |-> r.val]
        /\ common' = (IF r.res = "Ok"
                      THEN [common EXCEPT !.deviation_mantissa = r.val[1],
                                          !.deviation_exponent = r.val[2]]
                      ELSE common)
        /\ UNCHANGED <<sessVars, opVars, drvVars, peer_config, rx_specific, tx_power>>

\* set_bandwidth(get_bandwith()); the registers it was called on are noted
\* in args
BandwidthRoundTrip ==
    LET r == bandwidth_to_config(get_bandwith)
    IN  /\ call' = [fn |-> "bandwidth_round_trip",
                    args |-> <<rx_specific.bandwidth_mantissa,
                               rx_specific.bandwidth_exponent>>,
                    res |-> r.res, val |-> r.val]
        /\ rx_specific' = (IF r.res = "Ok"
                           THEN [rx_specific EXCEPT !.bandwidth_mantissa = r.val[1],
                                                    !.bandwidth_exponent = r.val[2]]
                           ELSE rx_specific)
        /\ UNCHANGED <<sessVars, opVars, drvVars, peer_config, common, tx_power>>

\* one call on the config drawn
NextLookup ==
    \/ call = NoCall /\ \E deviation \in Deviations : SetDeviation(deviation)
    \/ call = NoCall /\ \E bandwidth \in Bandwidths : SetBandwidth(bandwidth)
    \/ call = NoCall /\ DeviationRoundTrip
    \/ call = NoCall /\ BandwidthRoundTrip
SpecLookup == InitLookup /\ [][NextLookup]_vars

(* The TX power lookups *)

\* how many f32 steps around each distance of 0 and 1 MHz from a centre the
\* frequencies cover
NearSteps == 2

\* how many 2^-27 dBm around each power of a table the powers cover
PowerSteps == 17

\* the centres of the four tables, config.rs:682-689
Centres == {315, 433, 868, 915}

\* frequencies: around each centre and 1 MHz to either side of it, far from
\* all centres, and the values of test_tx_power (config.rs:962-975)
TxFrequencies ==
    {MHz15((c + s) * Pow2(15) + d) :
        c \in Centres, s \in {-1, 0, 1}, d \in (-NearSteps)..NearSteps}
    \cup {F32OfInt(mhz) : mhz \in {0, 123, 400, 999}}
    \cup {F32Dec(43392, 100)}

\* powers: the f32 values around every power of a table, and -1.0 dBm
\* (config.rs:963).  p / 2^27 dBm is an f32 when p has at most 24 bits
\* before its trailing zeros
Powers ==
    LET IsF32Power(p) ==
            LET n == IF p < 0 THEN -p ELSE p
            IN  BitLen(n) <= 24 \/ n % Pow2(BitLen(n) - 24) = 0
        TablePowers ==
            {table[i][2] :
                table \in {TX_POWERS_315, TX_POWERS_433, TX_POWERS_868, TX_POWERS_915},
                i \in 1..3}
    IN  {p \in {t + k : t \in TablePowers, k \in (-PowerSteps)..PowerSteps} :
            IsF32Power(p)}
        \cup {-Pow2(27)}

\* config.rs:768-778: TXConfig::tx_power_to_config(frequency, tx_power)
TxPowerToConfig(frequency, power) ==
    /\ Called("tx_power_to_config", <<frequency, power>>,
              tx_power_to_config(frequency, power))
    /\ UNCHANGED <<sessVars, opVars, drvVars, peer_config, common, rx_specific, tx_power>>

\* config.rs:783-793: TXConfig::config_to_tx_power(frequency, tx_power)
ConfigToTxPower(frequency, power) ==
    /\ Called("config_to_tx_power", <<frequency, power>>,
              config_to_tx_power(frequency, power))
    /\ UNCHANGED <<sessVars, opVars, drvVars, peer_config, common, rx_specific, tx_power>>

\* the arguments new_raw is called with: those of the example at
\* config.rs:750 but for the frequency and the byte
RawArgs(frequency, power) ==
    [frequency |-> frequency, modulation |-> "OOK", baud_rate |-> F32OfInt(1),
     tx_power |-> power, deviation |-> <<>>, sync_word |-> <<>>]

\* config.rs:753-763: TXConfig::new_raw(..); the config returned replaces the
\* one held
NewRaw(a) ==
    \E r \in TXConfig_new_raw(a) :
        /\ Called("TXConfig::new_raw", <<a>>, r)
        /\ common' = (IF r.res = "Ok" THEN r.val.common ELSE common)
        /\ tx_power' = (IF r.res = "Ok" THEN r.val.tx_power ELSE tx_power)
        /\ UNCHANGED <<sessVars, opVars, drvVars, peer_config, rx_specific>>

\* one lookup, or one construction from a raw byte
NextTxPower ==
    \/ call = NoCall /\ \E frequency \in TxFrequencies, power \in Powers :
                            TxPowerToConfig(frequency, power)
    \/ call = NoCall /\ \E frequency \in TxFrequencies, power \in 0..255 :
                            ConfigToTxPower(frequency, power)
    \/ call = NoCall /\ \E frequency \in Frequencies \cup TxFrequencies,
                            power \in {0, 96, 255} :
                            NewRaw(RawArgs(frequency, power))
SpecTxPower == Init /\ [][NextTxPower]_vars

(* Sequences of setter calls on an RXConfig and a TXConfig that share their
   common part *)

\* a setter of the RX-specific fields returned r; its Ok carries the fields
RxSetter(fn, arg, r) ==
    /\ call' = [fn |-> fn, args |-> <<arg>>, res |-> r.res, val |-> <<>>]
    /\ rx_specific' = (IF r.res = "Ok" THEN r.val ELSE rx_specific)
    /\ UNCHANGED <<sessVars, opVars, drvVars, peer_config, common, tx_power>>

\* config.rs:582-607: set_carrier_sense(carrier_sense)
SetCarrierSense(carrier_sense) ==
    RxSetter("set_carrier_sense", carrier_sense,
             set_carrier_sense(rx_specific, carrier_sense))

\* config.rs:620-626: set_max_lna_gain(max_lna_gain)
SetMaxLnaGain(max_lna_gain) ==
    RxSetter("set_max_lna_gain", max_lna_gain,
             set_max_lna_gain(rx_specific, max_lna_gain))

\* config.rs:635-641: set_max_dvga_gain(max_dvga_gain)
SetMaxDvgaGain(max_dvga_gain) ==
    RxSetter("set_max_dvga_gain", max_dvga_gain,
             set_max_dvga_gain(rx_specific, max_dvga_gain))

\* config.rs:650-656: set_magn_target(magn_target)
SetMagnTarget(magn_target) ==
    RxSetter("set_magn_target", magn_target, set_magn_target(rx_specific, magn_target))

\* config.rs:664-666: set_packet_length(packet_length), which returns nothing
SetPacketLength(packet_length) ==
    RxSetter("set_packet_length", packet_length,
             Ok(set_packet_length(rx_specific, packet_length)))

\* config.rs:798-801: set_tx_power(tx_power), looked up at the frequency the
\* config decodes to
SetTxPower(power) ==
    LET r == tx_power_to_config(config_to_frequency(common.frequency), power)
    IN  /\ Called("set_tx_power", <<power>>, r)
        /\ tx_power' = (IF r.res = "Ok" THEN r.val ELSE tx_power)
        /\ UNCHANGED <<sessVars, opVars, drvVars, peer_config, common, rx_specific>>

\* any setter, on the config as the setters before left it.  Each validating
\* setter is called with a value it accepts and one it rejects.  400 MHz is a
\* frequency with no power table; the sync word, the DVGA gain and the target
\* amplitude accepted are the default ones
NextSetters ==
    \/ \E frequency \in {F32OfInt(400), F32OfInt(100)} : SetFrequency(frequency)
    \/ \E a \in {<<"MSK", F32OfInt(250)>>, <<"MSK", F32OfInt(1)>>,
                 <<"OOK", F32OfInt(999)>>} :
            SetModulationAndBaudRate(a[1], a[2])
    \/ \E deviation \in {F32Dec(1586914, 1000000), F32OfInt(400)} :
            SetDeviation(deviation)
    \/ \E sync_word \in {U32(0, 0), U32(43690, 48059)} : SetSyncWord(sync_word)
    \/ \E bandwidth \in {58, 400} : SetBandwidth(bandwidth)
    \/ \E carrier_sense \in {<<>>, <<<<"Relative", 7>>>>, <<<<"Absolute", -7>>>>,
                             <<<<"Absolute", 8>>>>} :
            SetCarrierSense(carrier_sense)
    \/ \E max_lna_gain \in {3, 1} : SetMaxLnaGain(max_lna_gain)
    \/ \E max_dvga_gain \in {0, 1} : SetMaxDvgaGain(max_dvga_gain)
    \/ \E magn_target \in {33, 25} : SetMagnTarget(magn_target)
    \/ \E packet_length \in {0, 64} : SetPacketLength(packet_length)
    \/ \E power \in {5 * Pow2(27), -Pow2(27)} : SetTxPower(power)
SpecSetters == Init /\ [][NextSetters]_vars

(* The constructors *)

\* the arguments the constructors are called with: for every argument a value
\* that is accepted and one that is rejected, and None where it is optional.
\* 433.92 MHz has a power table, 400 MHz has none; 1 kBaud is in the range of
\* OOK and not in that of MSK
CommonArgs ==
    [frequency : {F32Dec(43392, 100), F32OfInt(400), F32OfInt(100)},
     modulation : {"OOK", "MSK"},
     baud_rate : {F32OfInt(1)},
     deviation : {<<>>, <<F32Dec(1586914, 1000000)>>, <<F32OfInt(400)>>},
     sync_word : {<<>>, <<U32(0, 65535)>>, <<U32(43690, 48059)>>}]

\* the further arguments of RXConfig::new
RXArgs ==
    [packet_length : {0, 1024},
     bandwidth : {<<>>, <<58>>, <<400>>},
     carrier_sense : {<<>>, <<<<"Relative", 10>>>>, <<<<"Relative", 7>>>>},
     max_lna_gain : {<<>>, <<3>>, <<1>>},
     max_dvga_gain : {<<>>, <<6>>, <<1>>},
     magn_target : {<<>>, <<24>>, <<25>>}]

\* the further argument of TXConfig::new: 0.1 dBm and -1.0 dBm
TXArgs == [tx_power : {13421773, -Pow2(27)}]

\* config.rs:271-293: CommonConfig::new(..); the config returned replaces the
\* one held
NewCommon(a) ==
    \E r \in CommonConfig_new(a) :
        /\ Called("CommonConfig::new", <<a>>, r)
        /\ common' = (IF r.res = "Ok" THEN r.val ELSE common)
        /\ UNCHANGED <<sessVars, opVars, drvVars, peer_config, rx_specific, tx_power>>

\* config.rs:485-525: RXConfig::new(..)
NewRX(a) ==
    \E r \in RXConfig_new(a) :
        /\ Called("RXConfig::new", <<a>>, r)
        /\ common' = (IF r.res = "Ok" THEN r.val.common ELSE common)
        /\ rx_specific' = (IF r.res = "Ok" THEN r.val.specific ELSE rx_specific)
        /\ UNCHANGED <<sessVars, opVars, drvVars, peer_config, tx_power>>

\* config.rs:710-728: TXConfig::new(..)
NewTX(a) ==
    \E r \in TXConfig_new(a) :
        /\ Called("TXConfig::new", <<a>>, r)
        /\ common' = (IF r.res = "Ok" THEN r.val.common ELSE common)
        /\ tx_power' = (IF r.res = "Ok" THEN r.val.tx_power ELSE tx_power)
        /\ UNCHANGED <<sessVars, opVars, drvVars, peer_config, rx_specific>>

\* the argument list made of the common arguments a and the further ones b
Both(a, b) ==
    [k \in DOMAIN a \cup DOMAIN b |-> IF k \in DOMAIN a THEN a[k] ELSE b[k]]

\* one call of a constructor
NextConstruct ==
    \/ call = NoCall /\ \E a \in CommonArgs : NewCommon(a)
    \/ call = NoCall /\ \E a \in CommonArgs, b \in RXArgs : NewRX(Both(a, b))
    \/ call = NoCall /\ \E a \in CommonArgs, b \in TXArgs : NewTX(Both(a, b))
SpecConstruct == Init /\ [][NextConstruct]_vars

-----------------------------------------------------------------------------
(* Sync word *)

\* C16: set_sync_word(w), through sync_word_to_config, accepts a 32-bit w
\* exactly when w <= 0xFFFF (upper half zero) or its upper 16 bits equal its
\* lower 16 bits; an accepted w is returned and stored unchanged; every
\* other w fails with InvalidSyncWord
C16_SyncWordValidation ==
    call.fn = "set_sync_word" =>
        LET w == call.args[1]
            accepted == w[1] = 0 \/ w[1] = w[2]
        IN  /\ call.res = "Ok" <=> accepted
            /\ accepted => (call.val = w /\ common.sync_word = w)
            /\ ~accepted => call.res = "InvalidSyncWord"

\* 0xFFFFFFFF was accepted and stored
C16_Witness ==
    /\ call.fn = "set_sync_word"
    /\ call.args[1] = U32(65535, 65535)
    /\ call.res = "Ok"
    /\ common.sync_word = U32(65535, 65535)

-----------------------------------------------------------------------------
(* Frequency *)

\* a frequency of at least 256 MHz (or 0) as a number of 2^-15 MHz
Units(frequency) ==
    IF frequency.m = 0 THEN 0 ELSE frequency.m * Pow2(frequency.e + 15)

\* lo MHz + dlo / 2^15 <= frequency <= hi MHz + dhi / 2^15
Between(frequency, lo, dlo, hi, dhi) ==
    /\ lo * Pow2(15) + dlo <= Units(frequency)
    /\ Units(frequency) <= hi * Pow2(15) + dhi

C19_FrequencyEncoding ==
    (call.fn = "set_frequency" /\ call.res = "Ok") =>
        LET f == call.args[1]
            n == f.m * Pow2(f.e + 16)
            word == common.frequency
        IN  /\ word = call.val
            /\ word = n \div 26
            /\ word < Pow2(24)
            /\ word * 26 <= n
            /\ n - word * 26 < 26
            /\ F32Le(config_to_frequency(word), f)

-----------------------------------------------------------------------------
(* Baud rate *)

C20_BaudRateRoundTrip ==
    call.fn = "baud_round_trip" =>
        LET modulation == call.args[1]
            mantissa == call.args[2]
            exponent == call.args[3]
        IN  valid_baud_rate(modulation, config_to_baud_rate(mantissa, exponent)) =>
                /\ call.res = "Ok"
                /\ call.val = <<mantissa, exponent>>

-----------------------------------------------------------------------------
(* A read error in the middle of receive() *)

\* C26: when a read of receive() fails with an error other than ENOMSG after
\* k >= 1 successful reads, receive() returns that error and its packets
\* vector is dropped with it; each of the k successful reads had taken its
\* packet out of the driver's buffer, and the failing read puts none back
C26_ReadErrorLosesPackets ==
    /\ []((op = "receive" /\ pc = "idle" /\ ReadResults # <<>>
             /\ ReadResults[Len(ReadResults)].status \in ReadFailures) =>
            /\ result = ReadErr(ReadResults[Len(ReadResults)].status)
            /\ packets = <<>>)
    /\ [][(op = "receive" /\ pc = "read" /\ log' # log) =>
            IF pc' = "read"
            THEN /\ fifo # <<>> /\ fifo' = Tail(fifo)
                 /\ Len(packets') = Len(packets) + 1
                 /\ packets'[Len(packets')].data = Head(fifo)
            ELSE /\ fifo' = fifo
                 /\ result' # "Ok" => packets' = <<>>]_vars

\* a receive() took the only buffered packet, its next read failed, and the
\* packet is neither returned nor in the driver's buffer
C26_Witness ==
    /\ op = "receive" /\ pc = "idle"
    /\ Len(ReadResults) >= 2
    /\ ReadResults[1].status = OK /\ ReadResults[1].data[3] = 1
    /\ ReadResults[Len(ReadResults)].status \in ReadFailures
    /\ result = ReadErr(ReadResults[Len(ReadResults)].status)
    /\ packets = <<>> /\ fifo = <<>>

-----------------------------------------------------------------------------
(* A failed new() *)

\* C27: while new() runs no session exists and no handle is stored; a new()
\* that has returned an error (from the open, the version check or the push
\* of the initial RX config) has created no session, stored no handle and
\* dropped the File it had opened, with blocking = true as with false, so
\* that the device is held by nobody on its behalf
C27_FailedNewHoldsNothing ==
    /\ (op = "new" /\ pc # "idle") => (~alive /\ ~handle)
    /\ (op = "new" /\ pc = "idle" /\ result # "Ok") =>
         /\ ~alive /\ ~handle /\ local = "none" /\ ~SessionHolds
         /\ log # <<>>
         /\ log[Len(log)].req \in {"open", "get_version", "set_rx_conf"}
         /\ \/ RequestFailed(log[Len(log)]) /\ result = ErrorOf(log[Len(log)])
            \/ /\ log[Len(log)].req = "get_version"
               /\ log[Len(log)].data[1] # VERSION
               /\ result = "VersionMismatch"

\* new(.., blocking = true) failed at the push of its RX config, and another
\* process has opened the device since
C27_Witness ==
    /\ op = "new" /\ blocking /\ pc = "idle" /\ ~alive
    /\ log # <<>> /\ log[Len(log)].req = "set_rx_conf"
    /\ log[Len(log)].status \in SetRxFailures
    /\ result = SetRxErr(log[Len(log)].status)
    /\ otherOpen

-----------------------------------------------------------------------------
(* Narrowing of the baud-rate pair *)

\* floor(log2(rate_Hz * 2^20 / 26000000)) for the f32 baud_rate in kBaud,
\* computed exactly: the quotient is baud_rate.m * 2^(baud_rate.e + 16) / 1625
\* and 1625 * 2^13 = 13312000 lies between 2^23 and 2^24
ExactExponent(baud_rate) ==
    baud_rate.e + 16 + (IF baud_rate.m >= 13312000 THEN 13 ELSE 12)

\* round(rate_Hz * 2^28 / (26000000 * 2^exponent) - 256), computed exactly,
\* halves away from zero
ExactMantissa(baud_rate) ==
    LET d == IF baud_rate.m >= 13312000 THEN 52000 ELSE 26000
    IN  ((2 * baud_rate.m + d) \div (2 * d)) - 256

\* C28: for every accepted call of set_modulation_and_baud_rate, the exponent
\* floor(log2(rate_Hz * 2^20 / 26000000)) lies in 0..15, the rounded mantissa
\* lies in 0..255, and the pair returned and stored is this pair
C28_NoNarrowingLoss ==
    (call.fn = "set_modulation_and_baud_rate" /\ call.res = "Ok") =>
        LET exponent == ExactExponent(call.args[2])
            mantissa == ExactMantissa(call.args[2])
        IN  /\ exponent \in 0..15
            /\ mantissa \in 0..255
            /\ call.val = <<mantissa, exponent>>
            /\ common.baud_rate_mantissa = mantissa
            /\ common.baud_rate_exponent = exponent

-----------------------------------------------------------------------------
(* Deviation and bandwidth *)

\* config.rs:561: the bandwidths in kHz
ValidBandwidths ==
    {58, 67, 81, 101, 116, 135, 162, 203, 232, 270, 325, 406, 464, 541, 650, 812}

DecodedBandwidths == {config_to_bandwidth(p[1], p[2]) : p \in (0..3) \X (0..3)}
DecodedDeviations == {config_to_deviation(p[1], p[2]) : p \in (0..7) \X (0..7)}

\* C21: the 16 bandwidth pairs decode to 16 different values, those of
\* ValidBandwidths, and the 64 deviation pairs to 64 different values;
\* setting the value a pair decodes to gives that pair back; set_bandwidth
\* and set_deviation accept a value exactly when a pair decodes to it, the
\* pair they store then decodes to exactly that value, and they fail with
\* InvalidBandwidth and InvalidDeviation otherwise
C21_TableLookupsRoundTrip ==
    /\ DecodedBandwidths = ValidBandwidths
    /\ Cardinality(DecodedBandwidths) = 16
    /\ Cardinality(DecodedDeviations) = 64
    /\ call.fn \in {"bandwidth_round_trip", "deviation_round_trip"} =>
         (call.res = "Ok" /\ call.val = call.args)
    /\ call.fn = "set_bandwidth" =>
         IF call.args[1] \in ValidBandwidths
         THEN /\ call.res = "Ok"
              /\ <<rx_specific.bandwidth_mantissa, rx_specific.bandwidth_exponent>>
                   = call.val
              /\ get_bandwith = call.args[1]
         ELSE call.res = "InvalidBandwidth"
    /\ call.fn = "set_deviation" =>
         IF call.args[1] \in DecodedDeviations
         THEN /\ call.res = "Ok"
              /\ <<common.deviation_mantissa, common.deviation_exponent>> = call.val
              /\ get_deviation = call.args[1]
         ELSE call.res = "InvalidDeviation"

\* set_deviation(380.85938) was accepted and stored mantissa 7, exponent 7
C21_Witness ==
    /\ call.fn = "set_deviation"
    /\ call.args = <<F32Dec(38085938, 100000)>>
    /\ call.res = "Ok"
    /\ common.deviation_mantissa = 7 /\ common.deviation_exponent = 7

-----------------------------------------------------------------------------
(* TX power *)

\* frequency is less than 1 MHz away from centre, in exact arithmetic.  An
\* f32 of 256 or more is a whole number of 2^-15 MHz
WithinOneMHz(frequency, centre) ==
    /\ frequency.m # 0
    /\ frequency.e >= -15
    /\ frequency.e <= -14
    /\ (centre - 1) * Pow2(15) < Units(frequency)
    /\ Units(frequency) < (centre + 1) * Pow2(15)

\* the table of the centre frequency is near to
TableNear(frequency) ==
    LET c == CHOOSE c \in Centres : WithinOneMHz(frequency, c)
    IN  CASE c = 315 -> TX_POWERS_315
          [] c = 433 -> TX_POWERS_433
          [] c = 868 -> TX_POWERS_868
          [] c = 915 -> TX_POWERS_915

\* the results a lookup of power may give: InvalidFrequency away from the
\* centres, else the other half of an entry whose half number key is less
\* than slack away from power, else InvalidTXPower
LookupResults(frequency, key, power, slack) ==
    IF \A c \in Centres : ~WithinOneMHz(frequency, c) THEN {Err("InvalidFrequency")}
    ELSE LET table == TableNear(frequency)
             found == {i \in 1..Len(table) :
                          table[i][key] - power \in (1 - slack)..(slack - 1)}
         IN  IF found = {} THEN {Err("InvalidTXPower")}
             ELSE {Ok(table[i][3 - key]) : i \in found}

\* C22: in both directions of the TX power lookup a frequency that is not
\* less than 1 MHz away from 315, 433, 868 or 915 MHz fails with
\* InvalidFrequency whatever the power is, and a frequency that is fails with
\* InvalidTXPower when the table of its centre has no entry matching the power
\* (a dBm value less than 2^-23 away, the same byte) and gives an entry's
\* other half when it has one; TXConfig::new_raw succeeds with the byte it is
\* given at every frequency set_frequency accepts, and fails with
\* InvalidFrequency at every other
C22_TxPowerLookupErrors ==
    /\ call.fn = "tx_power_to_config" =>
         [res |-> call.res, val |-> call.val]
            \in LookupResults(call.args[1], 2, call.args[2], Epsilon)
    /\ call.fn = "config_to_tx_power" =>
         [res |-> call.res, val |-> call.val]
            \in LookupResults(call.args[1], 1, call.args[2], 1)
    /\ call.fn = "TXConfig::new_raw" =>
         IF frequency_to_config(call.args[1].frequency).res = "Ok"
         THEN /\ call.res = "Ok"
              /\ call.val.tx_power = call.args[1].tx_power
              /\ tx_power = call.args[1].tx_power
              /\ common.frequency = frequency_to_config(call.args[1].frequency).val
         ELSE call.res = "InvalidFrequency"

\* -1.0 dBm, which no table holds, was looked up two f32 steps inside 1 MHz
\* of 868 MHz
C22_Witness ==
    /\ call.fn = "tx_power_to_config"
    /\ call.args = <<MHz15(867 * Pow2(15) + 2), -Pow2(27)>>
    /\ call.res = "InvalidTXPower"

-----------------------------------------------------------------------------
(* Setters and constructors *)

\* C23: a call of set_frequency, set_modulation_and_baud_rate, set_deviation,
\* set_sync_word, set_bandwidth, set_carrier_sense, set_max_lna_gain,
\* set_max_dvga_gain, set_magn_target or set_tx_power that returns an error
\* leaves every field of the config as it was
C23_SettersCommitOnSuccess ==
    [][call'.res # "Ok" => /\ common' = common
                           /\ rx_specific' = rx_specific
                           /\ tx_power' = tx_power]_vars

\* set_modulation_and_baud_rate failed when asked for another modulation than
\* the config has, on a config whose carrier sense an earlier call changed
C23_Witness ==
    /\ call.fn = "set_modulation_and_baud_rate"
    /\ call.res = "InvalidBaudRate"
    /\ call.args[1] # common.modulation
    /\ rx_specific.carrier_sense_mode = "Absolute"

\* C25 as claimed: every RXConfig obtained from RXConfig::default by any
\* sequence of setter calls has a packet length greater than 0
C25_PacketLengthPositive == rx_specific.packet_length > 0

\* what each common argument's conversion says, in the order frequency,
\* modulation with baud rate, sync word, deviation
CommonChecks(a) ==
    <<frequency_to_config(a.frequency).res,
      IF valid_baud_rate(a.modulation, a.baud_rate) THEN "Ok" ELSE "InvalidBaudRate",
      IF a.sync_word = <<>> THEN "Ok" ELSE sync_word_to_config(a.sync_word[1]).res,
      IF a.deviation = <<>> THEN "Ok" ELSE deviation_to_config(a.deviation[1]).res>>

\* what the receive-specific or transmit-specific arguments' checks say
SpecificChecks(fn, a) ==
    CASE fn = "RXConfig::new" ->
           {set_carrier_sense(DefaultRXSpecific, a.carrier_sense).res}
           \cup {bandwidth_to_config(a.bandwidth[i]).res : i \in DOMAIN a.bandwidth}
           \cup {set_max_lna_gain(DefaultRXSpecific, a.max_lna_gain[i]).res :
                    i \in DOMAIN a.max_lna_gain}
           \cup {set_max_dvga_gain(DefaultRXSpecific, a.max_dvga_gain[i]).res :
                    i \in DOMAIN a.max_dvga_gain}
           \cup {set_magn_target(DefaultRXSpecific, a.magn_target[i]).res :
                    i \in DOMAIN a.magn_target}
      [] fn = "TXConfig::new" ->
           {tx_power_to_config(
                config_to_frequency(frequency_to_config(a.frequency).val),
                a.tx_power).res}
      [] OTHER -> {}

\* C24: CommonConfig::new, RXConfig::new and TXConfig::new return the error
\* of the first invalid one among frequency, modulation with baud rate, sync
\* word and deviation, in this order; when these four are valid, the error of
\* an invalid receive-specific or transmit-specific argument; and a config
\* only when every argument is valid.  With an error comes no config
C24_ConstructorValidationOrder ==
    call.fn \in {"CommonConfig::new", "RXConfig::new", "TXConfig::new"} =>
        LET a == call.args[1]
            c == CommonChecks(a)
            bad == {i \in 1..4 : c[i] # "Ok"}
        IN  IF bad # {}
            THEN /\ call.res = c[CHOOSE i \in bad : \A j \in bad : i <= j]
                 /\ call.val = <<>>
            ELSE IF SpecificChecks(call.fn, a) \ {"Ok"} # {}
            THEN /\ call.res \in SpecificChecks(call.fn, a) \ {"Ok"}
                 /\ call.val = <<>>
            ELSE /\ call.res = "Ok"
                 /\ call.val # <<>>

\* RXConfig::new was given a baud rate, a sync word, a deviation and a target
\* amplitude that are all invalid, and returned InvalidBaudRate
C24_Witness ==
    /\ call.fn = "RXConfig::new"
    /\ call.args[1].frequency = F32OfInt(400)
    /\ call.args[1].modulation = "MSK"
    /\ call.args[1].sync_word = <<U32(43690, 48059)>>
    /\ call.args[1].deviation = <<F32OfInt(400)>>
    /\ call.args[1].magn_target = <<25>>
    /\ call.res = "InvalidBaudRate"
====
